---- MODULE Spec2Model ----
(***************************************************************************)
(* State-machine model of the anti-scam moderation bot                     *)
(* (src/app/handlers/messages.py, src/app/handlers/admin.py,               *)
(*  src/app/moderation/llm_client.py, src/app/db/models.py).               *)
(*                                                                         *)
(* One task per inbound message, one handler record per bind command and   *)
(* per override callback; each advances from one await to the next in one  *)
(* atomic step (asyncio runs everything between two awaits without         *)
(* interruption; the SQLAlchemy session is synchronous, and no write of a  *)
(* `with get_session()` block is followed by an await inside the block).   *)
(*                                                                         *)
(* Conventions: Python None is NULL for integer fields and None for string *)
(* fields; confidences and the threshold are in hundredths (0.70 = 70);    *)
(* datetime.now() is the token Stamp; a table is the sequence of its rows  *)
(* and a row's autoincrement id is its index.                              *)
(***************************************************************************)
EXTENDS Integers, Sequences, FiniteSets, TLC

VARIABLES
    admin_chat_ids,   \* settings.admin_chat_ids: None or the comma-separated parts
    faults,           \* environment: which collaborators may raise ("db", "tx")
    chats,            \* table chats
    users,            \* table users
    members,          \* table chat_members
    messages,         \* table messages
    task,             \* one handle_message task per inbound message
    cards,            \* notification cards delivered to admin chats
    presses,          \* one record per override callback dispatched
    commands          \* one record per /as_set_admin_chat command dispatched

vars == <<admin_chat_ids, faults, chats, users, members, messages, task, cards,
          presses, commands>>

\* ---------------------------------------------------------------- bounds
\* inbound messages of a run
MaxMsgs == 1
\* override callbacks of a run
MaxOverrides == 1

\* ------------------------------------------------------ program constants
MAX_STRIKES_WARN == 1
MAX_STRIKES_MUTE == 2
MAX_STRIKES_BAN == 3
MUTE_HOURS == 24
\* settings.default_confidence_threshold = 0.7, in hundredths
default_confidence_threshold == 70

NULL == 0 - 1
None == "None"
Stamp == "now"

\* ------------------------------------------------------------ the world
\* Telegram chats: 1 and 2 are groups, 3 is a private chat, 4 is a channel.
ChatIds == {1, 2, 3}
ChatType == [c \in {1, 2, 3, 4} |->
               IF c = 1 THEN "supergroup" ELSE IF c = 2 THEN "group"
               ELSE IF c = 3 THEN "private" ELSE "channel"]
\* Telegram users: 1 and 2 are people, 3 is a bot.
UserIds == {1, 2, 3}
IsBot == [u \in UserIds |-> u = 3]
\* What get_chat_administrators / get_chat_member answer (Telegram's state).
ChatAdmins == [c \in {1, 2, 3, 4} |-> IF c = 1 THEN {2} ELSE {}]
\* from_user.username as Telegram reports it with a message.
NameOf == [u \in UserIds |-> IF u = 1 THEN "alice" ELSE IF u = 2 THEN "bob" ELSE "bot"]
\* from_user.username as Telegram reports it with a callback (the reviewers
\* have renamed themselves since their last message).
ReviewerName == [u \in UserIds |-> IF u = 1 THEN "alice2" ELSE IF u = 2 THEN "bob2" ELSE "bot"]

Tasks == DOMAIN task

\* ------------------------------------------------------------- helpers
Range(s) == {s[i] : i \in 1 .. Len(s)}

\* the first of the row ids in S, 0 when none (scalar_one_or_none / first)
FirstIdx(S) == IF S = {} THEN 0 ELSE CHOOSE i \in S : \A j \in S : i <= j

ChatRow(tbl, tg) == FirstIdx({i \in 1 .. Len(tbl) : tbl[i].telegram_chat_id = tg})
UserRow(tbl, tg) == FirstIdx({i \in 1 .. Len(tbl) : tbl[i].telegram_user_id = tg})
MemberRow(tbl, cid, uid) ==
    FirstIdx({i \in 1 .. Len(tbl) : tbl[i].chat_id = cid /\ tbl[i].user_id = uid})

\* strike_count of the (chat, participant) pair, 0 while it has no row
StrikeOf(chatTbl, userTbl, memberTbl, chat_id, user_id) ==
    LET c == ChatRow(chatTbl, chat_id)
        u == UserRow(userTbl, user_id)
        m == MemberRow(memberTbl, c, u)
    IN  IF c = 0 \/ u = 0 \/ m = 0 THEN 0 ELSE memberTbl[m].strike_count

\* What a call to a collaborator may do in this environment: return (TRUE)
\* or raise (FALSE).
Outcomes(kind) == IF kind \in faults THEN {TRUE, FALSE} ELSE {TRUE}

\* ------------------------------------------------- settings.admin_chat_ids
\* The raw setting is modelled by its comma-separated parts (raw.split(",")):
\* a part is blank (empty or whitespace), an integer literal (possibly padded
\* with whitespace) or not a number.  No parts at all stands for None.
BlankPart == [kind |-> "blank", val |-> 0]
BadPart == [kind |-> "bad", val |-> 0]
IntPart(n) == [kind |-> "int", val |-> n]

RECURSIVE parse_parts(_, _)
parse_parts(parts, ids) ==
    IF parts = <<>> THEN ids
    ELSE LET part == Head(parts) IN
         IF part.kind = "blank" THEN parse_parts(Tail(parts), ids)
         ELSE IF part.kind = "int" THEN parse_parts(Tail(parts), Append(ids, part.val))
         ELSE parse_parts(Tail(parts), ids)

parse_global_admin_chat_ids(raw) ==
    IF raw = <<>> THEN <<>> ELSE parse_parts(raw, <<>>)

\* ------------------------------------------------------------- the gate
\* Variant: a chat that is itself a monitored chat (has a row of its own) is
\* not taken for an admin chat on the strength of another chat's binding.
is_admin_chat_id_unmonitored(raw, chatTbl, chat_id, db_ok) ==
    IF chat_id \in Range(parse_global_admin_chat_ids(raw)) THEN TRUE
    ELSE IF ~db_ok THEN FALSE
    ELSE /\ \E i \in 1 .. Len(chatTbl) : chatTbl[i].admin_chat_telegram_id = chat_id
         /\ \A i \in 1 .. Len(chatTbl) : chatTbl[i].telegram_chat_id # chat_id

\* Variant: only the configured global ids count.
is_admin_chat_id_global_only(raw, chatTbl, chat_id, db_ok) ==
    chat_id \in Range(parse_global_admin_chat_ids(raw))

\* is_admin_chat_id: a configured global id, else a lookup of the bindings
\* (a lookup that raises is logged and answers False).
is_admin_chat_id(raw, chatTbl, chat_id, db_ok) ==
    IF chat_id \in Range(parse_global_admin_chat_ids(raw)) THEN TRUE
    ELSE IF ~db_ok THEN FALSE
    ELSE \E i \in 1 .. Len(chatTbl) : chatTbl[i].admin_chat_telegram_id = chat_id

\* Variant: a failed get_chat_administrators counts the sender as an
\* administrator.
is_admin_fail_closed(chat_id, user_id, tx_ok) ==
    IF ~tx_ok THEN TRUE ELSE user_id \in ChatAdmins[chat_id]

\* is_admin: a get_chat_administrators that raises is logged and answers
\* False.
is_admin(chat_id, user_id, tx_ok) ==
    IF ~tx_ok THEN FALSE ELSE user_id \in ChatAdmins[chat_id]

\* _get_managed_chats: the rows of the chats bound to admin_chat_id, in
\* table order.
_get_managed_chats(chatTbl, admin_chat_id) ==
    LET P(row) == row.admin_chat_telegram_id = admin_chat_id
    IN  SelectSeq(chatTbl, P)

\* Variant: only the global flag of the user is consulted.
is_whitelisted_global_only(chatTbl, userTbl, memberTbl, chat_id, user_id, db_ok) ==
    IF ~db_ok THEN FALSE
    ELSE LET u == UserRow(userTbl, user_id)
         IN  IF u = 0 THEN FALSE ELSE userTbl[u].is_global_whitelisted

is_whitelisted(chatTbl, userTbl, memberTbl, chat_id, user_id, db_ok) ==
    IF ~db_ok THEN FALSE
    ELSE LET u == UserRow(userTbl, user_id)
             c == ChatRow(chatTbl, chat_id)
             m == MemberRow(memberTbl, c, u)
         IN  IF u = 0 THEN FALSE
             ELSE IF userTbl[u].is_global_whitelisted THEN TRUE
             ELSE IF c = 0 THEN FALSE
             ELSE IF m = 0 THEN FALSE
             ELSE memberTbl[m].is_whitelisted

\* message: [chat, from_user (NULL when absent), has_text]
is_service_or_bot_message(message) ==
    IF message.from_user = NULL THEN TRUE
    ELSE IF IsBot[message.from_user] THEN TRUE
    ELSE IF ~message.has_text THEN TRUE
    ELSE FALSE

\* ------------------------------------------------ classification gateway
\* What the HTTP call can produce: a transport/status failure, a body that
\* is not JSON, an envelope without choices[0].message.content because a key
\* or index is absent ("missing": KeyError, IndexError) or because a level
\* is not a dict or list ("mistyped": TypeError, e.g. {"choices": null}), a
\* null content, a content that is not JSON, and a JSON content with these
\* fields.
Labels == {"SCAM", "OK"}
Categories == {"job_scam", "crypto", "investment", "phishing", "other", "none"}

Resp(http, body, envelope, content, label, category, confidence, reason) ==
    [http |-> http, body |-> body, envelope |-> envelope, content |-> content,
     label |-> label, category |-> category, confidence |-> confidence,
     reason |-> reason]

Verdict(label, confidence) ==
    Resp("ok", "json", "ok", "json", label,
         IF label = "SCAM" THEN "job_scam" ELSE "none", confidence, TRUE)

LlmResponses ==
    { Resp("error", "json", "ok", "json", "SCAM", "job_scam", 90, TRUE),
      Resp("ok", "text", "ok", "json", "SCAM", "job_scam", 90, TRUE),
      Resp("ok", "json", "missing", "json", "SCAM", "job_scam", 90, TRUE),
      Resp("ok", "json", "mistyped", "json", "SCAM", "job_scam", 90, TRUE),
      Resp("ok", "json", "ok", "null", "SCAM", "job_scam", 90, TRUE),
      Resp("ok", "json", "ok", "text", "SCAM", "job_scam", 90, TRUE),
      Resp("ok", "json", "ok", "json", "MAYBE", "job_scam", 90, TRUE),
      Resp("ok", "json", "ok", "json", "SCAM", "bogus", 90, TRUE),
      Resp("ok", "json", "ok", "json", "SCAM", "job_scam", 101, TRUE),
      Resp("ok", "json", "ok", "json", "SCAM", "job_scam", 90, FALSE),
      Verdict("SCAM", default_confidence_threshold - 1),
      Verdict("SCAM", default_confidence_threshold),
      Verdict("SCAM", 90),
      Verdict("OK", 0),
      Verdict("OK", default_confidence_threshold - 1),
      Verdict("OK", default_confidence_threshold),
      Verdict("OK", 90) }

NoResult(kind) ==
    [kind |-> kind, label |-> None, category |-> None, confidence |-> NULL]

\* Variant: the parsed content is not validated against the schema.
classify_text_unvalidated(resp) ==
    IF resp.http # "ok" THEN NoResult("none")
    ELSE IF resp.body # "json" THEN NoResult("raise")
    ELSE IF resp.envelope = "mistyped" THEN NoResult("raise")
    ELSE IF resp.envelope # "ok" THEN NoResult("none")
    ELSE IF resp.content = "null" THEN NoResult("raise")
    ELSE IF resp.content # "json" THEN NoResult("none")
    ELSE [kind |-> "verdict", label |-> resp.label,
          category |-> resp.category, confidence |-> resp.confidence]

\* classify_text: the verdict, None (kind "none") or an exception the
\* function does not catch (kind "raise").
classify_text(resp) ==
    IF resp.http # "ok" THEN NoResult("none")
    ELSE IF resp.body # "json" THEN NoResult("raise")
    ELSE IF resp.envelope = "mistyped" THEN NoResult("raise")
    ELSE IF resp.envelope # "ok" THEN NoResult("none")
    ELSE IF resp.content = "null" THEN NoResult("raise")
    ELSE IF resp.content # "json" THEN NoResult("none")
    ELSE IF \/ resp.label \notin Labels
            \/ resp.category \notin Categories
            \/ resp.confidence < 0
            \/ resp.confidence > 100
            \/ ~resp.reason
         THEN NoResult("none")
    ELSE [kind |-> "verdict", label |-> resp.label,
          category |-> resp.category, confidence |-> resp.confidence]

\* ------------------------------------------------------ enforcement policy
\* Variant: the ban branch compares with == instead of >=.
apply_escalation_exact(strike_count) ==
    IF strike_count = NULL THEN "NONE"
    ELSE IF strike_count = MAX_STRIKES_WARN THEN "WARN"
    ELSE IF strike_count = MAX_STRIKES_MUTE THEN "MUTE"
    ELSE IF strike_count = MAX_STRIKES_BAN THEN "BAN"
    ELSE "NONE"

\* Which branch of apply_escalation runs for a strike count.
apply_escalation(strike_count) ==
    IF strike_count = NULL THEN "NONE"
    ELSE IF strike_count = MAX_STRIKES_WARN THEN "WARN"
    ELSE IF strike_count = MAX_STRIKES_MUTE THEN "MUTE"
    ELSE IF strike_count >= MAX_STRIKES_BAN THEN "BAN"
    ELSE "NONE"

\* ----------------------------------------------------- admin-chat resolver
\* Variant: a global id is appended without the membership test.
add_globals_unchecked(targets, globals) == targets \o globals

RECURSIVE add_globals(_, _)
add_globals(targets, globals) ==
    IF globals = <<>> THEN targets
    ELSE IF Head(globals) \in Range(targets) THEN add_globals(targets, Tail(globals))
    ELSE add_globals(Append(targets, Head(globals)), Tail(globals))

\* Variant: the bound id is taken without the None test.
target_chat_ids_unguarded(local_admin_chat_id, global_admin_chat_ids) ==
    add_globals(<<local_admin_chat_id>>, global_admin_chat_ids)

\* target_chat_ids of notify_admins_about_scam
target_chat_ids(local_admin_chat_id, global_admin_chat_ids) ==
    add_globals(IF local_admin_chat_id # NULL THEN <<local_admin_chat_id>> ELSE <<>>,
                global_admin_chat_ids)

\* ------------------------------------------------------------ table rows
\* Texts are sequences of pieces: "header" stands for the lines of the card
\* above the quoted message, "words" for a stretch of message text without
\* the marker, Marker for the substring "\n\n👮 Решение админа:" and a label
\* after it for the decision it announces.
Marker == "marker"
\* The text of the messages of the pipeline.
MessageText == <<"words">>
\* body of notify_admins_about_scam: the header lines, then the message text
CardBody(text) == <<"header">> \o text

ChatRec(tg, admin) ==
    [telegram_chat_id |-> tg, type |-> ChatType[tg], admin_chat_telegram_id |-> admin]
UserRec(tg, name, gw) ==
    [telegram_user_id |-> tg, username |-> name, is_global_whitelisted |-> gw]
MemberRec(cid, uid, wl, strikes, last) ==
    [chat_id |-> cid, user_id |-> uid, is_whitelisted |-> wl,
     strike_count |-> strikes, last_strike_at |-> last]
MessageRec(cid, uid, mid, res, eff, skip) ==
    [chat_id |-> cid, user_id |-> uid, telegram_message_id |-> mid,
     text |-> MessageText,
     model_label |-> res.label, model_category |-> res.category,
     model_confidence |-> res.confidence,
     human_label |-> None, human_labeled_at |-> None, human_labeled_by |-> NULL,
     is_scam_effective |-> eff, skipped_reason |-> skip]

\* ------------------------------------------------------------ task state
Pending == NoResult("pending")

IdleTask ==
    [pc |-> "idle", chat |-> NULL, from_user |-> NULL, has_text |-> FALSE,
     gate |-> "", llm_calls |-> 0, result |-> Pending,
     is_scam_policy |-> FALSE, skipped_reason |-> None,
     new_strike_count |-> NULL, saved_message_id |-> NULL,
     targets |-> <<>>, sent |-> 0, log |-> <<>>]

\* A transport call: the Bot method, the chat it addresses, which text it
\* carries (send_message), the mute duration (restrict_chat_member) and
\* whether it returned.
Ev(op, to, what, hours, ok) ==
    [op |-> op, to |-> to, what |-> what, hours |-> hours, ok |-> ok]

\* Variant: the card always shows one strike.
card_strikes_default(strike_count) == 1

\* strikes of notify_admins_about_scam: the count shown on the card
card_strikes(strike_count) ==
    IF strike_count # NULL THEN strike_count ELSE 1

\* Variant: only the "not scam" button is attached.
Card_one_button(admin_chat_id, message_db_id, strikes, res) ==
    [chat |-> admin_chat_id, message_db_id |-> message_db_id, strikes |-> strikes,
     label |-> res.label, confidence |-> res.confidence,
     text |-> CardBody(MessageText),
     buttons |-> IF message_db_id # NULL
                 THEN {<<"as_not_scam", message_db_id>>}
                 ELSE {},
     decision |-> None]

\* The card notify_admins_about_scam sends to admin_chat_id: the fields of
\* its body the model keeps, and the callback_data of its two buttons
\* (attached when message_db_id is not None).
Card(admin_chat_id, message_db_id, strikes, res) ==
    [chat |-> admin_chat_id, message_db_id |-> message_db_id, strikes |-> strikes,
     label |-> res.label, confidence |-> res.confidence,
     text |-> CardBody(MessageText),
     buttons |-> IF message_db_id # NULL
                 THEN {<<"as_not_scam", message_db_id>>, <<"as_mark_scam", message_db_id>>}
                 ELSE {},
     decision |-> None]

\* Variants: the threshold compared with > ; the confidence ignored.
is_scam_policy_strict(res) ==
    res.label = "SCAM" /\ res.confidence > default_confidence_threshold
is_scam_policy_label_only(res) ==
    res.label = "SCAM"

\* Variant: a confident verdict is enforced whatever its label.
is_scam_policy_confidence_only(res) ==
    res.confidence >= default_confidence_threshold

\* Variant: the skip reason is keyed on the confidence alone, whatever the
\* label.
skipped_reason_confidence_only(res) ==
    IF res.confidence < default_confidence_threshold THEN "low_confidence" ELSE None

\* effective_scam and the skip reason (handle_message, DECIDED)
is_scam_policy(res) ==
    res.label = "SCAM" /\ res.confidence >= default_confidence_threshold
skipped_reason(res) ==
    IF res.label = "SCAM" /\ ~is_scam_policy(res) THEN "low_confidence" ELSE None

\* Variant: the count is set, not incremented (every confirmed scam is a
\* first strike).
record_strike_reset(strike_count) == 1

\* member.strike_count = (member.strike_count or 0) + 1
record_strike(strike_count) ==
    (IF strike_count = NULL THEN 0 ELSE strike_count) + 1

\* Variant: the count is taken for every verdict.
new_strike_count_of_any(scam, strike_count) == strike_count

\* Variant: the count read before the increment is kept.
new_strike_count_of_before(scam, strike_count) ==
    IF scam THEN strike_count - 1 ELSE NULL

\* The local new_strike_count after the with-block: None unless
\* is_scam_policy, then member.strike_count as just incremented.
new_strike_count_of(scam, strike_count) ==
    IF scam THEN strike_count ELSE NULL

\* Variant: the strike is added to every membership row.
persist_every_member(chatTbl, userTbl, memberTbl, messageTbl, chat_id, user_id, mid, res) ==
    LET c0 == ChatRow(chatTbl, chat_id)
        chats1 == IF c0 = 0 THEN Append(chatTbl, ChatRec(chat_id, NULL)) ELSE chatTbl
        c == IF c0 = 0 THEN Len(chats1) ELSE c0
        u0 == UserRow(userTbl, user_id)
        users1 == IF u0 = 0
                  THEN Append(userTbl, UserRec(user_id, NameOf[user_id], FALSE))
                  ELSE [userTbl EXCEPT ![u0].username = NameOf[user_id]]
        u == IF u0 = 0 THEN Len(users1) ELSE u0
        m0 == MemberRow(memberTbl, c, u)
        members1 == IF m0 = 0
                    THEN Append(memberTbl, MemberRec(c, u, FALSE, 0, None))
                    ELSE memberTbl
        m == IF m0 = 0 THEN Len(members1) ELSE m0
        scam == is_scam_policy(res)
        members2 == IF scam
                    THEN [i \in DOMAIN members1 |->
                            [members1[i] EXCEPT !.strike_count = @ + 1,
                                                !.last_strike_at = Stamp]]
                    ELSE members1
        messages1 == Append(messageTbl,
                            MessageRec(c, u, mid, res, scam, skipped_reason(res)))
    IN  [chats |-> chats1, users |-> users1, members |-> members2,
         messages |-> messages1,
         new_strike_count |-> IF scam THEN members2[m].strike_count ELSE NULL,
         saved_message_id |-> Len(messages1)]

\* The PERSISTED step of handle_message: the tables after the with-block
\* commits, with the locals it leaves behind.
persist(chatTbl, userTbl, memberTbl, messageTbl, chat_id, user_id, mid, res) ==
    LET c0 == ChatRow(chatTbl, chat_id)
        chats1 == IF c0 = 0 THEN Append(chatTbl, ChatRec(chat_id, NULL)) ELSE chatTbl
        c == IF c0 = 0 THEN Len(chats1) ELSE c0
        u0 == UserRow(userTbl, user_id)
        users1 == IF u0 = 0
                  THEN Append(userTbl, UserRec(user_id, NameOf[user_id], FALSE))
                  ELSE [userTbl EXCEPT ![u0].username = NameOf[user_id]]
        u == IF u0 = 0 THEN Len(users1) ELSE u0
        m0 == MemberRow(memberTbl, c, u)
        members1 == IF m0 = 0
                    THEN Append(memberTbl, MemberRec(c, u, FALSE, 0, None))
                    ELSE memberTbl
        m == IF m0 = 0 THEN Len(members1) ELSE m0
        scam == is_scam_policy(res)
        members2 == IF scam
                    THEN [members1 EXCEPT ![m].strike_count =
                                              record_strike(members1[m].strike_count),
                                          ![m].last_strike_at = Stamp]
                    ELSE members1
        messages1 == Append(messageTbl,
                            MessageRec(c, u, mid, res, scam, skipped_reason(res)))
    IN  [chats |-> chats1, users |-> users1, members |-> members2,
         messages |-> messages1,
         new_strike_count |-> new_strike_count_of(scam, members2[m].strike_count),
         saved_message_id |-> Len(messages1)]

\* notify_admins_about_scam up to its first send: the targets, or the
\* exception of its unguarded store read.
notify_targets(raw, chatTbl, chat_id) ==
    LET c == ChatRow(chatTbl, chat_id)
    IN  target_chat_ids(IF c # 0 THEN chatTbl[c].admin_chat_telegram_id ELSE NULL,
                        parse_global_admin_chat_ids(raw))

\* Variant: a failed transport call of the preceding step propagates and
\* ends the run.
EnterNotify_propagating(tk, db_ok) ==
    IF ~db_ok \/ (tk.log # <<>> /\ ~tk.log[Len(tk.log)].ok)
    THEN [tk EXCEPT !.pc = "aborted"]
    ELSE LET tg == notify_targets(admin_chat_ids, chats, tk.chat)
         IN  [tk EXCEPT !.targets = tg, !.pc = IF tg = <<>> THEN "done" ELSE "notify"]

\* The task after apply_escalation returned: notify_admins_about_scam starts.
EnterNotify(tk, db_ok) ==
    IF ~db_ok THEN [tk EXCEPT !.pc = "aborted"]
    ELSE LET tg == notify_targets(admin_chat_ids, chats, tk.chat)
         IN  [tk EXCEPT !.targets = tg, !.pc = IF tg = <<>> THEN "done" ELSE "notify"]

\* ----------------------------------------------------------- the pipeline
DbUnchanged == UNCHANGED <<chats, users, members, messages>>

\* Variant: a failing block keeps what it flushed before the failure (the
\* strike) and loses only the record.
get_session_partial(before, after, db_ok) ==
    IF db_ok THEN after ELSE [after EXCEPT !.messages = before.messages]

\* The tables a with get_session() block leaves: its writes when it
\* commits, the tables as they were when it raises (rollback).
get_session(before, after, db_ok) == IF db_ok THEN after ELSE before
Config == <<admin_chat_ids, faults>>

\* The messages Telegram delivers: text messages of users 1 and 2 in the two
\* groups, and in chat 1 a message with no sender, a bot's message and a
\* message without text; a text message in the private chat.
Msg(chat, from_user, has_text) ==
    [chat |-> chat, from_user |-> from_user, has_text |-> has_text]
Messages ==
    { Msg(1, 1, TRUE), Msg(1, 2, TRUE), Msg(2, 1, TRUE), Msg(2, 2, TRUE),
      Msg(1, NULL, TRUE), Msg(1, 3, TRUE), Msg(1, 1, FALSE), Msg(3, 1, TRUE) }

\* handle_message from dispatch to its first await (get_chat_administrators):
\* the chat-type check, is_admin_chat_id and is_service_or_bot_message.
Receive(t, msgs) ==
    /\ task[t].pc = "idle"
    /\ \E message \in msgs, db_ok \in Outcomes("db") :
          LET tk == [IdleTask EXCEPT !.chat = message.chat,
                                     !.from_user = message.from_user,
                                     !.has_text = message.has_text]
          IN  task' = [task EXCEPT ![t] =
                  IF ChatType[message.chat] \notin {"group", "supergroup"}
                  THEN [tk EXCEPT !.pc = "skipped", !.gate = "chat_type"]
                  ELSE IF is_admin_chat_id(admin_chat_ids, chats, message.chat, db_ok)
                  THEN [tk EXCEPT !.pc = "skipped", !.gate = "admin_chat"]
                  ELSE IF is_service_or_bot_message(message)
                  THEN [tk EXCEPT !.pc = "skipped", !.gate = "service_or_bot"]
                  ELSE [tk EXCEPT !.pc = "is_admin"]]
    /\ DbUnchanged
    /\ UNCHANGED <<Config, cards, presses, commands>>

handle_message(t) ==
    /\ \A p \in Tasks : p < t => task[p].pc # "idle"
    /\ Receive(t, Messages)

\* get_chat_administrators answered: is_admin, then is_whitelisted (which
\* holds no await), then the classification request is issued.
handle_message_gate(t) ==
    /\ task[t].pc = "is_admin"
    /\ \E tx_ok \in Outcomes("tx"), db_ok \in Outcomes("db") :
          LET tk == task[t] IN
          task' = [task EXCEPT ![t] =
              IF is_admin(tk.chat, tk.from_user, tx_ok)
              THEN [tk EXCEPT !.pc = "skipped", !.gate = "admin"]
              ELSE IF is_whitelisted(chats, users, members, tk.chat, tk.from_user, db_ok)
              THEN [tk EXCEPT !.pc = "skipped", !.gate = "whitelist"]
              ELSE [tk EXCEPT !.pc = "classify", !.llm_calls = tk.llm_calls + 1]]
    /\ DbUnchanged
    /\ UNCHANGED <<Config, cards, presses, commands>>

\* Variant: the request is issued again when it gave no result.
result_is_None_retry(tk, res) ==
    [tk EXCEPT !.llm_calls = tk.llm_calls + 1]

\* handle_message when classify_text returned None: it logs and returns.
result_is_None(tk, res) ==
    [tk EXCEPT !.pc = "no_verdict", !.result = res]

\* Variant: enforcement starts without the deletion.
policy_actions_enforce_first(is_scam) ==
    IF is_scam THEN "esc_call" ELSE "done"

\* Where handle_message goes after its with-block: "if is_scam_policy"
\* starts with message.delete(), otherwise the handler returns.
policy_actions(is_scam) ==
    IF is_scam THEN "delete" ELSE "done"

\* classify_text returned: no verdict stops the run; a verdict is decided
\* and persisted in one with-block (committed whole or rolled back whole).
Classified(t, resps) ==
    /\ task[t].pc = "classify"
    /\ \E resp \in resps, db_ok \in Outcomes("db") :
          LET tk == task[t]
              res == classify_text(resp)
              db == persist(chats, users, members, messages,
                            tk.chat, tk.from_user, t, res)
          IN  IF res.kind = "raise"
              THEN /\ task' = [task EXCEPT ![t] = [tk EXCEPT !.pc = "aborted", !.result = res]]
                   /\ DbUnchanged
              ELSE IF res.kind = "none"
              THEN /\ task' = [task EXCEPT ![t] = result_is_None(tk, res)]
                   /\ DbUnchanged
              ELSE LET stored == [chats |-> chats, users |-> users,
                                  members |-> members, messages |-> messages]
                       committed == get_session(stored, db, db_ok)
                   IN  /\ task' = [task EXCEPT ![t] =
                              IF ~db_ok
                              THEN [tk EXCEPT !.pc = "aborted", !.result = res,
                                         !.is_scam_policy = is_scam_policy(res),
                                         !.skipped_reason = skipped_reason(res)]
                              ELSE [tk EXCEPT !.pc = policy_actions(is_scam_policy(res)),
                                         !.result = res,
                                         !.is_scam_policy = is_scam_policy(res),
                                         !.skipped_reason = skipped_reason(res),
                                         !.new_strike_count = db.new_strike_count,
                                         !.saved_message_id = db.saved_message_id]]
                       /\ chats' = committed.chats
                       /\ users' = committed.users
                       /\ members' = committed.members
                       /\ messages' = committed.messages
    /\ UNCHANGED <<Config, cards, presses, commands>>

handle_message_classified(t) == Classified(t, LlmResponses)

\* Variant: enforcement and card take the pair's count as the store holds
\* it when they run.
strike_count_passed_stored(tk, chatTbl, userTbl, memberTbl) ==
    StrikeOf(chatTbl, userTbl, memberTbl, tk.chat, tk.from_user)

\* strike_count=new_strike_count: apply_escalation and
\* notify_admins_about_scam are handed the local the with-block assigned.
strike_count_passed(tk, chatTbl, userTbl, memberTbl) == tk.new_strike_count

\* message.delete() returned (a failure is only logged); apply_escalation
\* selects its branch and issues the branch's first transport call.
handle_message_deleted(t) ==
    /\ task[t].pc = "delete"
    /\ \E tx_ok \in Outcomes("tx"), db_ok \in Outcomes("db") :
          LET tk == [task[t] EXCEPT !.log = Append(@, Ev("delete_message", task[t].chat, "", 0, tx_ok))]
              action == apply_escalation(strike_count_passed(tk, chats, users, members))
          IN  task' = [task EXCEPT ![t] =
                  IF action = "WARN" THEN [tk EXCEPT !.pc = "esc_notice"]
                  ELSE IF action \in {"MUTE", "BAN"} THEN [tk EXCEPT !.pc = "esc_call"]
                  ELSE EnterNotify(tk, db_ok)]
    /\ DbUnchanged
    /\ UNCHANGED <<Config, cards, presses, commands>>

\* Variant: the notice is sent whether or not the call returned.
except_branch_notice_anyway(tk, tx_ok, db_ok) ==
    [tk EXCEPT !.pc = "esc_notice"]

\* Variant: a call that raised is issued again.
except_branch_retry(tk, tx_ok, db_ok) ==
    IF tx_ok THEN [tk EXCEPT !.pc = "esc_notice"]
    ELSE [tk EXCEPT !.pc = "esc_call"]

\* The try block of apply_escalation after restrict_chat_member or
\* ban_chat_member: the notice follows a call that returned; a call that
\* raised lands in the except branch, which logs and ends apply_escalation.
except_branch(tk, tx_ok, db_ok) ==
    IF tx_ok THEN [tk EXCEPT !.pc = "esc_notice"]
    ELSE EnterNotify(tk, db_ok)

\* restrict_chat_member / ban_chat_member returned: on success the notice is
\* sent next, on failure the except-branch ends apply_escalation.
apply_escalation_called(t) ==
    /\ task[t].pc = "esc_call"
    /\ \E tx_ok \in Outcomes("tx"), db_ok \in Outcomes("db") :
          LET mute == apply_escalation(
                          strike_count_passed(task[t], chats, users, members)) = "MUTE"
              ev == IF mute
                    THEN Ev("restrict_chat_member", task[t].chat, "", MUTE_HOURS, tx_ok)
                    ELSE Ev("ban_chat_member", task[t].chat, "", 0, tx_ok)
              tk == [task[t] EXCEPT !.log = Append(@, ev)]
          IN  task' = [task EXCEPT ![t] = except_branch(tk, tx_ok, db_ok)]
    /\ DbUnchanged
    /\ UNCHANGED <<Config, cards, presses, commands>>

\* The in-chat send_message of apply_escalation returned.
apply_escalation_notice(t) ==
    /\ task[t].pc = "esc_notice"
    /\ \E tx_ok \in Outcomes("tx"), db_ok \in Outcomes("db") :
          LET what == apply_escalation(
                          strike_count_passed(task[t], chats, users, members))
              tk == [task[t] EXCEPT !.log =
                        Append(@, Ev("send_message", task[t].chat, what, 0, tx_ok))]
          IN  task' = [task EXCEPT ![t] = EnterNotify(tk, db_ok)]
    /\ DbUnchanged
    /\ UNCHANGED <<Config, cards, presses, commands>>

\* Variant: the loop ends at the first send that raises.
send_loop_break(sent, targets, tx_ok) ==
    IF ~tx_ok \/ sent = Len(targets) THEN "done" ELSE "notify"

\* Where the send loop stands after sent sends: a send that raises is
\* logged and the loop goes on to the next target.
send_loop(sent, targets, tx_ok) ==
    IF sent = Len(targets) THEN "done" ELSE "notify"

\* One send of the notification loop returned; a delivered card appears in
\* its admin chat.
notify_admins_about_scam(t) ==
    /\ task[t].pc = "notify"
    /\ \E tx_ok \in Outcomes("tx") :
          LET tk == task[t]
              dest == tk.targets[tk.sent + 1]
              strikes == card_strikes(strike_count_passed(tk, chats, users, members))
          IN  /\ task' = [task EXCEPT ![t] =
                      [tk EXCEPT !.sent = tk.sent + 1,
                                 !.log = Append(@, Ev("send_message", dest, "card", 0, tx_ok)),
                                 !.pc = send_loop(tk.sent + 1, tk.targets, tx_ok)]]
              /\ cards' = IF tx_ok
                          THEN Append(cards, Card(dest, tk.saved_message_id, strikes, tk.result))
                          ELSE cards
    /\ DbUnchanged
    /\ UNCHANGED <<Config, presses, commands>>

\* ------------------------------------------------------- bind-admin-chat
\* The argument of /as_set_admin_chat: missing, not a number, or an id.
MissingArg == [kind |-> "missing", val |-> 0]
Cmd(chat, from_user, arg) == [chat |-> chat, from_user |-> from_user, arg |-> arg]
\* The commands issued: by the administrator of chat 1 with each kind of
\* argument, by a non-administrator, without a sender, in chat 2 (which has
\* no administrator) and in the private chat.
BindCommands ==
    { Cmd(1, 2, IntPart(2)), Cmd(1, 2, IntPart(3)), Cmd(1, 2, MissingArg),
      Cmd(1, 2, BadPart), Cmd(1, 1, IntPart(2)), Cmd(1, NULL, IntPart(2)),
      Cmd(2, 2, IntPart(3)), Cmd(3, 2, IntPart(2)) }

\* The chats table after the command's with-block.
set_admin_chat(chatTbl, chat_id, admin_chat_id) ==
    LET c == ChatRow(chatTbl, chat_id)
    IN  IF c = 0 THEN Append(chatTbl, ChatRec(chat_id, admin_chat_id))
        ELSE [chatTbl EXCEPT ![c].admin_chat_telegram_id = admin_chat_id]

\* Variant: the sender's status in the chat is not checked.
bind_accepted_any_sender(chat_id, from_user, arg, tx_ok) ==
    /\ ChatType[chat_id] \in {"group", "supergroup"}
    /\ from_user # NULL
    /\ tx_ok
    /\ arg.kind = "int"

\* Does the command reach its with-block? tx_ok: get_chat_member returned.
bind_accepted(chat_id, from_user, arg, tx_ok) ==
    /\ ChatType[chat_id] \in {"group", "supergroup"}
    /\ from_user # NULL
    /\ tx_ok
    /\ from_user \in ChatAdmins[chat_id]
    /\ arg.kind = "int"

\* Which message.answer the command ends with, in the order of the
\* handler's checks; "raised" when get_chat_member or the with-block raises
\* and the handler is left without an answer.
bind_answer(chat_id, from_user, arg, tx_ok, db_ok) ==
    IF ChatType[chat_id] \notin {"group", "supergroup"} THEN "not_group"
    ELSE IF from_user = NULL THEN "no_sender"
    ELSE IF ~tx_ok THEN "raised"
    ELSE IF from_user \notin ChatAdmins[chat_id] THEN "not_admin"
    ELSE IF arg.kind = "missing" THEN "usage"
    ELSE IF arg.kind # "int" THEN "not_number"
    ELSE IF ~db_ok THEN "raised"
    ELSE "bound"

\* The handler of one command: where it stands (get_chat_member, answer,
\* done), the command, the message.answer it ends with ("" while undecided)
\* and whether that answer was delivered.
CommandRec(cmd, pc, answer) ==
    [pc |-> pc, chat |-> cmd.chat, from_user |-> cmd.from_user, arg |-> cmd.arg,
     answer |-> answer, delivered |-> FALSE]

\* commands issued in a run
MaxBinds == 2

\* A command drawn from cmds is dispatched and runs to its first await:
\* message.answer when the chat is no group or the sender is missing,
\* bot.get_chat_member otherwise.
as_set_admin_chat(cmds) ==
    /\ Len(commands) < MaxBinds
    /\ \E cmd \in cmds :
          commands' = Append(commands,
              IF ChatType[cmd.chat] \notin {"group", "supergroup"}
              THEN CommandRec(cmd, "answer", "not_group")
              ELSE IF cmd.from_user = NULL
              THEN CommandRec(cmd, "answer", "no_sender")
              ELSE CommandRec(cmd, "get_chat_member", ""))
    /\ UNCHANGED <<Config, chats, users, members, messages, task, cards, presses>>

cmd_as_set_admin_chat == as_set_admin_chat(BindCommands)

\* The command as the administrator of chat 1 issues it, with an id.
AdminBindCommands == {Cmd(1, 2, IntPart(2)), Cmd(1, 2, IntPart(3))}
cmd_as_set_admin_chat_by_admin == as_set_admin_chat(AdminBindCommands)

\* bot.get_chat_member of command c returned or raised: the status and
\* argument checks and, for an accepted command, the with-block run to the
\* next await (message.answer); an exception leaves the handler.
get_chat_member(c) ==
    /\ commands[c].pc = "get_chat_member"
    /\ \E tx_ok \in Outcomes("tx"), db_ok \in Outcomes("db") :
          LET cmd == commands[c]
              answer == bind_answer(cmd.chat, cmd.from_user, cmd.arg, tx_ok, db_ok)
          IN  /\ chats' = IF bind_accepted(cmd.chat, cmd.from_user, cmd.arg, tx_ok) /\ db_ok
                          THEN set_admin_chat(chats, cmd.chat, cmd.arg.val)
                          ELSE chats
              /\ commands' = [commands EXCEPT
                       ![c].pc = IF answer = "raised" THEN "done" ELSE "answer",
                       ![c].answer = answer]
    /\ UNCHANGED <<Config, users, members, messages, task, cards, presses>>

\* message.answer of command c returned (delivered) or raised; the handler
\* ends.
message_answer(c) ==
    /\ commands[c].pc = "answer"
    /\ \E sent \in Outcomes("tx") :
          commands' = [commands EXCEPT ![c].pc = "done", ![c].delivered = sent]
    /\ UNCHANGED <<Config, chats, users, members, messages, task, cards, presses>>

\* -------------------------------------------------------- human override
Reviewers == {1, 2}

_parse_message_id_from_callback(data) ==
    IF data[2].kind = "int" THEN data[2].val ELSE NULL

\* Variant: every admin chat may label every record.
override_authorized_any(raw, chatTbl, messageTbl, message_db_id, admin_chat_id) == TRUE

\* Variant: any admin chat may label the records of a chat that is bound
\* to some admin chat.
override_authorized_bound_chat(raw, chatTbl, messageTbl, message_db_id, admin_chat_id) ==
    LET chat_obj == chatTbl[messageTbl[message_db_id].chat_id]
    IN  \/ admin_chat_id \in Range(parse_global_admin_chat_ids(raw))
        \/ chat_obj.admin_chat_telegram_id # NULL

\* May a callback from admin_chat_id label record message_db_id?
override_authorized(raw, chatTbl, messageTbl, message_db_id, admin_chat_id) ==
    LET chat_obj == chatTbl[messageTbl[message_db_id].chat_id]
    IN  \/ admin_chat_id \in Range(parse_global_admin_chat_ids(raw))
        \/ chat_obj.admin_chat_telegram_id = admin_chat_id

_get_or_create_user_by_telegram(userTbl, tg_user, name) ==
    LET u == UserRow(userTbl, tg_user)
    IN  IF u = 0 THEN Append(userTbl, UserRec(tg_user, name, FALSE))
        ELSE [userTbl EXCEPT ![u].username = name]

NoCallback ==
    [pc |-> "done", card |-> 0, from_user |-> NULL, label |-> None,
     message_db_id |-> NULL, old_text |-> <<>>, answer |-> None,
     edited |-> FALSE, confirmation |-> None]

\* Variants: a label once set is kept; the label also rewrites the
\* record's effective flag.
label_record_first_wins(messageTbl, message_db_id, label, admin_user) ==
    IF messageTbl[message_db_id].human_label # None THEN messageTbl
    ELSE [messageTbl EXCEPT ![message_db_id].human_label = label,
                            ![message_db_id].human_labeled_at = Stamp,
                            ![message_db_id].human_labeled_by = admin_user]
label_record_effective(messageTbl, message_db_id, label, admin_user) ==
    [messageTbl EXCEPT ![message_db_id].human_label = label,
                       ![message_db_id].human_labeled_at = Stamp,
                       ![message_db_id].human_labeled_by = admin_user,
                       ![message_db_id].is_scam_effective = (label = "SCAM")]

\* Variant: the reviewer is written only while the record has none.
label_record_keep_reviewer(messageTbl, message_db_id, label, admin_user) ==
    [messageTbl EXCEPT ![message_db_id].human_label = label,
                       ![message_db_id].human_labeled_at = Stamp,
                       ![message_db_id].human_labeled_by =
                           IF @ = NULL THEN admin_user ELSE @]

\* The record after the handler's three assignments (admin_user: the row id
\* of the reviewer).
label_record(messageTbl, message_db_id, label, admin_user) ==
    [messageTbl EXCEPT ![message_db_id].human_label = label,
                       ![message_db_id].human_labeled_at = Stamp,
                       ![message_db_id].human_labeled_by = admin_user]

\* Variant: the decision line is appended to the whole old text.
new_text_appended(old_text, label) == old_text \o <<Marker, label>>

\* new_text of cb_not_scam / cb_mark_scam: the old text up to its first
\* marker (old_text.split(marker, 1)[0]), or all of it when it has none,
\* followed by the decision line.
new_text(old_text, label) ==
    LET at == {i \in 1 .. Len(old_text) : old_text[i] = Marker}
        base_text == IF at = {} THEN old_text
                     ELSE SubSeq(old_text, 1, FirstIdx(at) - 1)
    IN  base_text \o <<Marker, label>>

\* Variant: the decision line is written to every card of the record.
edit_card_every_copy(cardSeq, k, old_text, label) ==
    [i \in 1 .. Len(cardSeq) |->
        IF cardSeq[i].message_db_id = cardSeq[k].message_db_id
        THEN [cardSeq[i] EXCEPT !.decision = label, !.text = new_text(old_text, label)]
        ELSE cardSeq[i]]

\* callback.message.edit_text(new_text): the message the callback came from
\* (card k) gets the new text; old_text is callback.message.text.
edit_card(cardSeq, k, old_text, label) ==
    [cardSeq EXCEPT ![k].decision = label, ![k].text = new_text(old_text, label)]

\* Variant: a failed edit_text leaves the handler (no callback.answer).
after_edit_text_propagating(pr, tx_ok) ==
    [pr EXCEPT !.pc = IF tx_ok THEN "answer" ELSE "done", !.edited = tx_ok]

\* The handler after its try/except around edit_text: a failure is logged,
\* and in either case callback.answer comes next.
after_edit_text(pr, tx_ok) == [pr EXCEPT !.pc = "answer", !.edited = tx_ok]

\* The handlers cb_not_scam / cb_mark_scam as the event loop runs them. From
\* dispatch through the with-block there is no await on the accepted path,
\* so parsing, the checks, the three assignments and the commit are one
\* step; the handler is then suspended in edit_text and after it in
\* callback.answer, where other handlers run. A rejected callback is
\* suspended in the callback.answer of its rejection. The callback carries
\* the card's text as it was when the button was pressed.
\*
\* A callback of card k from reviewer tg_user is dispatched and runs to its
\* first await; a store call that raises (db_ok = FALSE) leaves the handler
\* as an exception, whatever the checks would have answered.
Dispatched(label, k, tg_user, name, db_ok) ==
    LET admin_chat_id == cards[k].chat
        message_db_id == _parse_message_id_from_callback(<<label, IntPart(cards[k].message_db_id)>>)
        found == message_db_id # NULL /\ message_db_id \in 1 .. Len(messages)
        ok == /\ found
              /\ override_authorized(admin_chat_ids, chats, messages,
                                     message_db_id, admin_chat_id)
        users1 == _get_or_create_user_by_telegram(users, tg_user, name)
        answer == IF message_db_id = NULL THEN "bad_format"
                  ELSE IF ~db_ok THEN "error"
                  ELSE IF ~found THEN "not_found"
                  ELSE IF ~ok THEN "no_access"
                  ELSE "labelled"
    IN  /\ presses' = Append(presses,
                          [pc |-> IF answer = "labelled" THEN "edit"
                                  ELSE IF answer = "error" THEN "done"
                                  ELSE "answer",
                           card |-> k, from_user |-> tg_user, label |-> label,
                           message_db_id |-> message_db_id,
                           old_text |-> cards[k].text, answer |-> answer,
                           edited |-> FALSE, confirmation |-> None])
        /\ IF answer = "labelled"
           THEN /\ users' = users1
                /\ messages' = label_record(messages, message_db_id, label,
                                            UserRow(users1, tg_user))
           ELSE UNCHANGED <<users, messages>>
        /\ UNCHANGED <<Config, chats, members, task, cards, commands>>

\* A button press on any card by any reviewer, while fewer than limit
\* callbacks have been dispatched.
Pressed(label, limit) ==
    /\ Len(presses) < limit
    /\ \E k \in 1 .. Len(cards), tg_user \in Reviewers, db_ok \in Outcomes("db") :
          Dispatched(label, k, tg_user, ReviewerName[tg_user], db_ok)

cb_not_scam == Pressed("NOT_SCAM", MaxOverrides)

cb_mark_scam == Pressed("SCAM", MaxOverrides)

\* edit_text of press p returned or raised (a failure is only logged); the
\* handler goes on to answer the callback.
edit_text(p) ==
    /\ presses[p].pc = "edit"
    /\ \E tx_ok \in Outcomes("tx") :
          /\ cards' = IF tx_ok
                      THEN edit_card(cards, presses[p].card, presses[p].old_text,
                                     presses[p].label)
                      ELSE cards
          /\ presses' = [presses EXCEPT ![p] = after_edit_text(presses[p], tx_ok)]
    /\ UNCHANGED <<Config, chats, users, members, messages, task, commands>>

\* callback.answer of press p, the handler's last statement (the
\* confirmation, or the alert of a rejection): it reaches the reviewer, or
\* the call raises.
callback_answer(p) ==
    /\ presses[p].pc = "answer"
    /\ \E tx_ok \in Outcomes("tx") :
          presses' = [presses EXCEPT ![p].pc = "done",
                                     ![p].confirmation = IF tx_ok THEN "sent" ELSE "raised"]
    /\ UNCHANGED <<Config, chats, users, members, messages, task, cards, commands>>

\* The callback dispatched last, and how many were dispatched.
callback == IF presses = <<>> THEN NoCallback ELSE presses[Len(presses)]
overrides == Len(presses)

\* ------------------------------------------------------------ initial state
\* The two configurations of settings.admin_chat_ids that are explored:
\* unset, and "2,x, ,2" (an invalid entry, a blank one and a repeated id).
AdminChatIdsChoices ==
    { <<>>,
      <<IntPart(2), BadPart, BlankPart, IntPart(2)>> }

\* What the store holds when the bot starts: nothing, or rows left by an
\* earlier run and by the operators who maintain the whitelist flags.
EmptyDb == [chats |-> <<>>, users |-> <<>>, members |-> <<>>, messages |-> <<>>]

\* n earlier confirmed-scam messages of user 1 in chat 1
RECURSIVE EarlierScams(_)
EarlierScams(n) ==
    IF n = 0 THEN <<>>
    ELSE Append(EarlierScams(n - 1),
                MessageRec(1, 1, 100 + n, classify_text(Verdict("SCAM", 90)), TRUE, None))

StrikeDb(n) ==
    [chats |-> <<ChatRec(1, NULL)>>,
     users |-> <<UserRec(1, NameOf[1], FALSE)>>,
     members |-> <<MemberRec(1, 1, FALSE, n, Stamp)>>,
     messages |-> EarlierScams(n)]

InitDbs ==
    { EmptyDb,
      [EmptyDb EXCEPT !.users = <<UserRec(1, NameOf[1], TRUE)>>],
      [EmptyDb EXCEPT !.chats = <<ChatRec(1, NULL)>>,
                      !.users = <<UserRec(1, NameOf[1], FALSE)>>,
                      !.members = <<MemberRec(1, 1, TRUE, 0, None)>>],
      StrikeDb(1), StrikeDb(2), StrikeDb(4) }

InitWith(raws, dbs, fs, n) ==
    /\ admin_chat_ids \in raws
    /\ faults = fs
    /\ \E db \in dbs :
          /\ chats = db.chats
          /\ users = db.users
          /\ members = db.members
          /\ messages = db.messages
    /\ task = [t \in 1 .. n |-> IdleTask]
    /\ cards = <<>>
    /\ presses = <<>>
    /\ commands = <<>>

Init == InitWith(AdminChatIdsChoices, InitDbs, {}, MaxMsgs)

Pipeline(t) ==
    \/ handle_message_gate(t)
    \/ handle_message_deleted(t)
    \/ apply_escalation_called(t)
    \/ apply_escalation_notice(t)
    \/ notify_admins_about_scam(t)

Next ==
    \/ \E t \in Tasks : handle_message(t)
    \/ \E t \in Tasks : handle_message_classified(t)
    \/ \E t \in Tasks : Pipeline(t)
    \/ cmd_as_set_admin_chat_by_admin
    \/ \E c \in DOMAIN commands : get_chat_member(c)
    \/ \E c \in DOMAIN commands : message_answer(c)
    \/ cb_not_scam
    \/ cb_mark_scam
    \/ \E p \in DOMAIN presses : edit_text(p)
    \/ \E p \in DOMAIN presses : callback_answer(p)

\* The store and the transport answer every call.
Spec == Init /\ [][Next]_vars

\* Store and transport calls may raise.
InitFaulty == InitWith(AdminChatIdsChoices, InitDbs, {"db", "tx"}, MaxMsgs)
SpecFaulty == InitFaulty /\ [][Next]_vars

\* --------------------------------------------- the pipeline under faults
\* Inbound messages only, with store and transport calls that may raise;
\* chat 1 may also start bound to admin chat 3.
FaultyDbs == InitDbs \cup {[StrikeDb(1) EXCEPT !.chats = <<ChatRec(1, 3)>>]}
InitPipelineFaulty == InitWith(AdminChatIdsChoices, FaultyDbs, {"db", "tx"}, MaxMsgs)

NextPipeline ==
    \/ \E t \in Tasks : handle_message(t)
    \/ \E t \in Tasks : handle_message_classified(t)
    \/ \E t \in Tasks : Pipeline(t)

SpecPipelineFaulty == InitPipelineFaulty /\ [][NextPipeline]_vars

\* The same with a reliable store: only transport calls may raise.
InitTransportFaulty == InitWith(AdminChatIdsChoices, FaultyDbs, {"tx"}, MaxMsgs)
SpecTransportFaulty == InitTransportFaulty /\ [][NextPipeline]_vars

\* ----------------------------------------------- three scams in a row
\* Messages of user 1 in chat 1, each processed to its end before the next
\* arrives, each classified SCAM above the threshold; no global admin chats;
\* chat 1 unknown, known and unbound, or bound to admin chat 2.
ScenarioMsgs == 3

\* Variant: the next update is dispatched only after a run that returned
\* normally past the gate or at the gate.
Terminal_returned == {"done", "skipped"}

\* The ways a run of handle_message ends: it returns (done, skipped,
\* no_verdict) or an exception leaves it (aborted); in each case the handler
\* task is over and the dispatcher takes the next update.
Terminal == {"done", "skipped", "no_verdict", "aborted"}
ScamVerdicts == {Verdict("SCAM", 71), Verdict("SCAM", 90), Verdict("SCAM", 100)}
ScenarioDbs ==
    { EmptyDb,
      [EmptyDb EXCEPT !.chats = <<ChatRec(1, NULL)>>],
      [EmptyDb EXCEPT !.chats = <<ChatRec(1, 2)>>] }

InitThreeScams == InitWith({<<>>}, ScenarioDbs, {}, ScenarioMsgs)

handle_message_in_turn(t) ==
    /\ \A p \in Tasks : p < t => task[p].pc \in Terminal
    /\ Receive(t, {Msg(1, 1, TRUE)})

handle_message_scam(t) == Classified(t, ScamVerdicts)

NextThreeScams ==
    \/ \E t \in Tasks : handle_message_in_turn(t)
    \/ \E t \in Tasks : handle_message_scam(t)
    \/ \E t \in Tasks : Pipeline(t)

SpecThreeScams == InitThreeScams /\ [][NextThreeScams]_vars

\* ------------------------------------------------ admin-chat resolution
\* A confirmed scam of user 1 in chat 1 under every value of
\* settings.admin_chat_ids of up to MaxParts comma-separated parts and
\* every binding of chat 1.
MaxParts == 3
Parts == {BlankPart, BadPart, IntPart(2), IntPart(3)}
RawsUpTo(n) == UNION {[1 .. k -> Parts] : k \in 0 .. n}
ResolveDbs ==
    { EmptyDb,
      [EmptyDb EXCEPT !.chats = <<ChatRec(1, NULL)>>],
      [EmptyDb EXCEPT !.chats = <<ChatRec(1, 2)>>],
      [EmptyDb EXCEPT !.chats = <<ChatRec(1, 3)>>],
      [StrikeDb(1) EXCEPT !.chats = <<ChatRec(1, 3)>>] }

InitResolve == InitWith(RawsUpTo(MaxParts), ResolveDbs, {}, MaxMsgs)

handle_message_user(t) ==
    /\ \A p \in Tasks : p < t => task[p].pc # "idle"
    /\ Receive(t, {Msg(1, 1, TRUE)})

handle_message_confirmed(t) == Classified(t, {Verdict("SCAM", 90)})

NextResolve ==
    \/ \E t \in Tasks : handle_message_user(t)
    \/ \E t \in Tasks : handle_message_confirmed(t)
    \/ \E t \in Tasks : Pipeline(t)

SpecResolve == InitResolve /\ [][NextResolve]_vars

\* ---------------------------------------------------- binding admin chats
\* Only /as_set_admin_chat commands, every kind of BindCommands, with
\* collaborators that always answer or with store and transport calls that
\* may raise; the store starts empty or knows chat 2 (bound to 2 or 3) and
\* possibly chat 1.
BindDbs ==
    { EmptyDb,
      [EmptyDb EXCEPT !.chats = <<ChatRec(2, 2)>>],
      [EmptyDb EXCEPT !.chats = <<ChatRec(2, 3)>>],
      [EmptyDb EXCEPT !.chats = <<ChatRec(1, NULL), ChatRec(2, 3)>>] }

InitBind ==
    \E fs \in {{}, {"db", "tx"}} : InitWith(AdminChatIdsChoices, BindDbs, fs, 0)

NextBind ==
    \/ cmd_as_set_admin_chat
    \/ \E c \in DOMAIN commands : get_chat_member(c)
    \/ \E c \in DOMAIN commands : message_answer(c)

SpecBind == InitBind /\ [][NextBind]_vars

\* --------------------------------------------- strikes against records
\* Messages of users 1 and 2 in chats 1 and 2 handled as concurrent tasks
\* from empty tables, while store and transport calls may raise; each gets
\* a confirmed scam, a scam below the threshold, OK or no verdict.
TallyMsgs == 2
TallyMessages == {Msg(1, 1, TRUE), Msg(1, 2, TRUE), Msg(2, 1, TRUE)}
TallyResponses ==
    { Resp("error", "json", "ok", "json", "SCAM", "job_scam", 90, TRUE),
      Verdict("SCAM", 90), Verdict("SCAM", 69), Verdict("OK", 90) }

InitTally == InitWith({<<>>}, {EmptyDb}, {"db", "tx"}, TallyMsgs)

handle_message_any(t) ==
    /\ \A p \in Tasks : p < t => task[p].pc # "idle"
    /\ Receive(t, TallyMessages)

handle_message_judged(t) == Classified(t, TallyResponses)

NextTally ==
    \/ \E t \in Tasks : handle_message_any(t)
    \/ \E t \in Tasks : handle_message_judged(t)
    \/ \E t \in Tasks : Pipeline(t)

SpecTally == InitTally /\ [][NextTally]_vars

\* ------------------------------------------------ runs that must end
\* The messages and verdicts of the tally above, handled as concurrent
\* tasks while store and transport calls may raise, from empty tables or
\* from a store that holds one strike of user 1 in chat 1 and binds chat 1
\* to chat 3, so that the mute branch and the send loop are run through.
\* Every external call a run has issued eventually returns or raises: each
\* continuation of a run is taken if it stays enabled. Nothing obliges
\* Telegram to deliver a message.
TerminateDbs == {EmptyDb, [StrikeDb(1) EXCEPT !.chats = <<ChatRec(1, 3)>>]}
InitTerminate ==
    InitWith(AdminChatIdsChoices, TerminateDbs, {"db", "tx"}, TallyMsgs)
CallsReturn ==
    \A t \in 1 .. TallyMsgs :
        WF_vars(handle_message_judged(t)) /\ WF_vars(Pipeline(t))
SpecTerminate == InitTerminate /\ [][NextTally]_vars /\ CallsReturn

\* ------------------------------------------------ gate lookups that fail
\* Chat 1 is bound to the group chat 2 and user 1 is whitelisted, globally or
\* in chat 1. The administrator of chat 1 (user 2) and user 1 write in chat
\* 1 and user 2 writes in chat 2, one message after the other, each judged
\* a confirmed scam; the store, the transport, both or neither may raise.
FailOpenMsgs == 3
InitFailOpen ==
    \E fs \in SUBSET {"db", "tx"} :
        InitWith({<<>>},
                 { [EmptyDb EXCEPT !.chats = <<ChatRec(1, 2)>>,
                                   !.users = <<UserRec(1, NameOf[1], TRUE)>>],
                   [EmptyDb EXCEPT !.chats = <<ChatRec(1, 2)>>,
                                   !.users = <<UserRec(1, NameOf[1], FALSE)>>,
                                   !.members = <<MemberRec(1, 1, TRUE, 0, None)>>] },
                 fs, FailOpenMsgs)

handle_message_lookup(t) ==
    /\ \A p \in Tasks : p < t => task[p].pc \in Terminal
    /\ Receive(t, {Msg(1, 2, TRUE), Msg(1, 1, TRUE), Msg(2, 2, TRUE)})

NextFailOpen ==
    \/ \E t \in Tasks : handle_message_lookup(t)
    \/ \E t \in Tasks : handle_message_confirmed(t)
    \/ \E t \in Tasks : Pipeline(t)

SpecFailOpen == InitFailOpen /\ [][NextFailOpen]_vars

\* ------------------------------------------- a group bound as admin chat
\* Chat 2 is a monitored group that holds a confirmed-scam record and a
\* strike of user 1. Users 1 and 2 write in chat 2, one message after the
\* other, each judged a confirmed scam, while the administrator of chat 1
\* binds chat 1 to chat 2 or to chat 3. Store and transport answer every
\* call.
TakeoverMsgs == 3
TakeoverMessages == {Msg(2, 1, TRUE), Msg(2, 2, TRUE)}
TakeoverDbs == {[StrikeDb(1) EXCEPT !.chats = <<ChatRec(2, NULL)>>]}

InitTakeover == InitWith(AdminChatIdsChoices, TakeoverDbs, {}, TakeoverMsgs)

handle_message_in_group(t) ==
    /\ \A p \in Tasks : p < t => task[p].pc \in Terminal
    /\ Receive(t, TakeoverMessages)

NextTakeover ==
    \/ \E t \in Tasks : handle_message_in_group(t)
    \/ \E t \in Tasks : handle_message_confirmed(t)
    \/ \E t \in Tasks : Pipeline(t)
    \/ cmd_as_set_admin_chat_by_admin
    \/ \E c \in DOMAIN commands : get_chat_member(c)
    \/ \E c \in DOMAIN commands : message_answer(c)

SpecTakeover == InitTakeover /\ [][NextTakeover]_vars

\* ------------------------------------------------- a message after a failure
\* Messages of user 1 in chat 1 handled one after the other while store and
\* transport calls may raise and the classifier may fail; chat 1 starts
\* unknown or with one strike and bound to admin chat 3.
RecoverMsgs == 2
RecoverResponses ==
    { Resp("error", "json", "ok", "json", "SCAM", "job_scam", 90, TRUE),
      Resp("ok", "text", "ok", "json", "SCAM", "job_scam", 90, TRUE),
      Verdict("SCAM", 90), Verdict("OK", 90) }
RecoverDbs == {EmptyDb, [StrikeDb(1) EXCEPT !.chats = <<ChatRec(1, 3)>>]}

InitRecover == InitWith({<<IntPart(2)>>}, RecoverDbs, {"db", "tx"}, RecoverMsgs)

handle_message_answered(t) == Classified(t, RecoverResponses)

NextRecover ==
    \/ \E t \in Tasks : handle_message_in_turn(t)
    \/ \E t \in Tasks : handle_message_answered(t)
    \/ \E t \in Tasks : Pipeline(t)

SpecRecover == InitRecover /\ [][NextRecover]_vars

\* ------------------------------------------- the PERSISTED step in detail
\* Confirmed scams of user 1 in chat 1 handled as concurrent tasks, with the
\* with-block of handle_message taken in two steps: persist_begin reads the
\* rows and sets the new count on the loaded ChatMember, persist_commit
\* flushes and commits. The block holds no await, so the event loop gives
\* no other task a turn until the block is left.
RaceMsgs == 2

\* Variant: the store calls of the block yield to the event loop.
may_run_always(t) == TRUE

\* May the event loop resume task t? Not while another task is inside its
\* with-block.
may_run(t) == \A u \in Tasks \ {t} : task[u].pc # "persist"

InitRace == InitWith(AdminChatIdsChoices, {EmptyDb, StrikeDb(1)}, {}, RaceMsgs)

race_message(t) ==
    /\ may_run(t)
    /\ \A p \in Tasks : p < t => task[p].pc # "idle"
    /\ Receive(t, {Msg(1, 1, TRUE)})

race_gate(t) == may_run(t) /\ handle_message_gate(t)

persist_begin(t) ==
    /\ may_run(t)
    /\ task[t].pc = "classify"
    /\ LET res == classify_text(Verdict("SCAM", 90))
       IN  task' = [task EXCEPT ![t] =
               [@ EXCEPT !.pc = "persist", !.result = res,
                         !.is_scam_policy = is_scam_policy(res),
                         !.skipped_reason = skipped_reason(res),
                         !.new_strike_count =
                             StrikeOf(chats, users, members,
                                      task[t].chat, task[t].from_user) + 1]]
    /\ DbUnchanged
    /\ UNCHANGED <<Config, cards, presses, commands>>

persist_commit(t) ==
    /\ task[t].pc = "persist"
    /\ LET tk == task[t]
           db == persist(chats, users, members, messages, tk.chat, tk.from_user,
                         t, tk.result)
           m == MemberRow(db.members, ChatRow(db.chats, tk.chat),
                          UserRow(db.users, tk.from_user))
       IN  /\ chats' = db.chats
           /\ users' = db.users
           /\ members' = [db.members EXCEPT ![m].strike_count = tk.new_strike_count]
           /\ messages' = db.messages
           /\ task' = [task EXCEPT ![t] =
                  [tk EXCEPT !.pc = "delete", !.saved_message_id = db.saved_message_id]]
    /\ UNCHANGED <<Config, cards, presses, commands>>

race_actions(t) ==
    /\ may_run(t)
    /\ \/ handle_message_deleted(t)
       \/ apply_escalation_called(t)
       \/ apply_escalation_notice(t)
       \/ notify_admins_about_scam(t)

NextRace ==
    \/ \E t \in Tasks : race_message(t)
    \/ \E t \in Tasks : race_gate(t)
    \/ \E t \in Tasks : persist_begin(t)
    \/ \E t \in Tasks : persist_commit(t)
    \/ \E t \in Tasks : race_actions(t)

SpecRace == InitRace /\ [][NextRace]_vars

\* ------------------------------------------------------- review of a card
\* The store of an earlier run: one confirmed scam of user 1 in chat 1
\* (record 1, strike 1), chat 1 unbound or bound to chat 2 or 3, and the
\* cards that run delivered. No message is in flight; reviewers press the
\* buttons up to MaxReviews times.
MaxReviews == 2
ReviewDbs ==
    { StrikeDb(1),
      [StrikeDb(1) EXCEPT !.chats = <<ChatRec(1, 2)>>],
      [StrikeDb(1) EXCEPT !.chats = <<ChatRec(1, 3)>>] }
DeliveredCards(raw, db) ==
    LET tg == notify_targets(raw, db.chats, 1)
    IN  [i \in 1 .. Len(tg) |->
            Card(tg[i], 1, card_strikes(db.members[1].strike_count),
                 classify_text(Verdict("SCAM", 90)))]

InitReview ==
    /\ admin_chat_ids \in AdminChatIdsChoices
    /\ faults = {}
    /\ \E db \in ReviewDbs :
          /\ chats = db.chats
          /\ users = db.users
          /\ members = db.members
          /\ messages = db.messages
          /\ cards = DeliveredCards(admin_chat_ids, db)
    /\ task = <<>>
    /\ presses = <<>>
    /\ commands = <<>>

review_not_scam == Pressed("NOT_SCAM", MaxReviews)
review_mark_scam == Pressed("SCAM", MaxReviews)

NextReview ==
    \/ review_not_scam
    \/ review_mark_scam
    \/ \E p \in DOMAIN presses : edit_text(p)
    \/ \E p \in DOMAIN presses : callback_answer(p)

SpecReview == InitReview /\ [][NextReview]_vars

\* ------------------------------------------- overrides handled concurrently
\* The store of the review above, while store and transport calls may
\* raise; the reviewed message's text may contain the marker substring
\* itself.
MaxPresses == 2
PressTexts == {<<"words">>, <<"words", Marker, "words">>}
PressDbs ==
    {[db EXCEPT !.messages[1].text = txt] : db \in ReviewDbs, txt \in PressTexts}
PressCards(raw, db) ==
    LET delivered == DeliveredCards(raw, db)
    IN  [i \in 1 .. Len(delivered) |->
            [delivered[i] EXCEPT !.text = CardBody(db.messages[1].text)]]

InitPresses ==
    /\ admin_chat_ids \in AdminChatIdsChoices
    /\ faults = {"db", "tx"}
    /\ \E db \in PressDbs :
          /\ chats = db.chats
          /\ users = db.users
          /\ members = db.members
          /\ messages = db.messages
          /\ cards = PressCards(admin_chat_ids, db)
    /\ task = <<>>
    /\ presses = <<>>
    /\ commands = <<>>

press_not_scam == Pressed("NOT_SCAM", MaxPresses)
press_mark_scam == Pressed("SCAM", MaxPresses)

NextPresses ==
    \/ press_not_scam
    \/ press_mark_scam
    \/ \E p \in DOMAIN presses : edit_text(p)
    \/ \E p \in DOMAIN presses : callback_answer(p)

SpecPresses == InitPresses /\ [][NextPresses]_vars

\* ============================================================ properties
Strike(chat_id, user_id) == StrikeOf(chats, users, members, chat_id, user_id)

\* rows of table messages written for inbound message t
RecordsOf(t) == {i \in 1 .. Len(messages) : messages[i].telegram_message_id = t}

\* positions of the log where an enforcement action starts: the warning of
\* WARN, the restrict call of MUTE, the ban call of BAN
Enforcements(log) ==
    {i \in 1 .. Len(log) :
        \/ log[i].op \in {"restrict_chat_member", "ban_chat_member"}
        \/ log[i].op = "send_message" /\ log[i].what = "WARN"}

Classifies(t) == task[t].pc = "classify" /\ task'[t].pc # "classify"

ConfirmedScam(res) ==
    res.kind = "verdict" /\ res.label = "SCAM"
        /\ res.confidence >= default_confidence_threshold

\* C1: a verdict SCAM with confidence >= threshold (equality included) is
\* effective scam, its record says so, the pair's strike_count grows by
\* exactly 1 in that step, and the finished run has attempted exactly one
\* enforcement action.
C1_Step ==
    \A t \in Tasks :
        Classifies(t) /\ ConfirmedScam(task'[t].result) =>
            /\ task'[t].is_scam_policy
            /\ task'[t].pc = "delete"
            /\ Len(messages') = Len(messages) + 1
            /\ task'[t].saved_message_id = Len(messages')
            /\ messages'[Len(messages')].is_scam_effective
            /\ messages'[Len(messages')].telegram_message_id = t
            /\ StrikeOf(chats', users', members', task[t].chat, task[t].from_user)
                 = Strike(task[t].chat, task[t].from_user) + 1
            /\ task'[t].new_strike_count = Strike(task[t].chat, task[t].from_user) + 1
C1_State ==
    \A t \in Tasks :
        ConfirmedScam(task[t].result) =>
            /\ Cardinality(Enforcements(task[t].log)) <= 1
            /\ task[t].pc \in {"notify", "done"} =>
                   Cardinality(Enforcements(task[t].log)) = 1
            /\ task[t].pc \in {"delete", "esc_call", "esc_notice", "notify", "done"}
C1_ScamAtThresholdStrikesOnce == [][C1_Step]_vars /\ []C1_State

C1_Witness ==
    \E t \in Tasks :
        /\ task[t].pc = "done"
        /\ task[t].result.label = "SCAM"
        /\ task[t].result.confidence = default_confidence_threshold
        /\ task[t].new_strike_count = 2
        /\ Cardinality(Enforcements(task[t].log)) = 1

\* The enforcement part of a run's transport log: Bot method, text, hours.
EnforcementLog(log) ==
    LET P(e) == e.op \in {"restrict_chat_member", "ban_chat_member"}
                  \/ (e.op = "send_message" /\ e.what # "card")
        sel == SelectSeq(log, P)
    IN  [i \in 1 .. Len(sel) |-> <<sel[i].op, sel[i].what, sel[i].hours>>]

\* C2: the enforcement action is a total function of the new strike count:
\* 1 -> only the in-chat warning (no restrict or ban call), 2 -> restrict
\* for 24 hours then the notice, every count >= 3 -> ban then the notice.
C2_ActionByStrikeCount ==
    \A t \in Tasks :
        task[t].is_scam_policy /\ task[t].pc \in {"notify", "done"} =>
            LET n == task[t].new_strike_count
                e == EnforcementLog(task[t].log)
            IN  /\ n >= 1
                /\ n = 1 => e = << <<"send_message", "WARN", 0>> >>
                /\ n = 2 => e = << <<"restrict_chat_member", "", 24>>,
                                   <<"send_message", "MUTE", 0>> >>
                /\ n >= 3 => e = << <<"ban_chat_member", "", 0>>,
                                    <<"send_message", "BAN", 0>> >>

C2_Witness ==
    \E t \in Tasks :
        /\ task[t].pc = "done"
        /\ task[t].new_strike_count = 5
        /\ EnforcementLog(task[t].log)[1][1] = "ban_chat_member"

\* The skip conditions of the gate, read off the message and the tables.
GlobalAdminChats == Range(parse_global_admin_chat_ids(admin_chat_ids))
BoundAdminChats == {chats[i].admin_chat_telegram_id : i \in 1 .. Len(chats)} \ {NULL}
SkipOnReceipt(tk) ==
    \/ ChatType[tk.chat] \notin {"group", "supergroup"}
    \/ tk.chat \in GlobalAdminChats \cup BoundAdminChats
    \/ tk.from_user = NULL
    \/ IsBot[tk.from_user]
    \/ ~tk.has_text
SkipOnSender(tk) ==
    \/ tk.from_user \in ChatAdmins[tk.chat]
    \/ \E i \in 1 .. Len(users) :
          users[i].telegram_user_id = tk.from_user /\ users[i].is_global_whitelisted
    \/ \E i \in 1 .. Len(members) :
          /\ chats[members[i].chat_id].telegram_chat_id = tk.chat
          /\ users[members[i].user_id].telegram_user_id = tk.from_user
          /\ members[i].is_whitelisted

\* C3: a message that meets a skip condition of the gate is skipped, and a
\* skipped message causes no classification call, no ModerationRecord and
\* no transport call.
C3_Step ==
    \A t \in Tasks :
        /\ task[t].pc = "idle" /\ task'[t].pc # "idle" /\ SkipOnReceipt(task'[t])
              => task'[t].pc = "skipped"
        /\ task[t].pc = "is_admin" /\ task'[t].pc # "is_admin" /\ SkipOnSender(task[t])
              => task'[t].pc = "skipped"
        /\ task'[t].pc = "skipped" /\ task[t].pc # "skipped"
              => messages' = messages /\ task'[t].llm_calls = 0
C3_State ==
    \A t \in Tasks :
        task[t].pc = "skipped" =>
            /\ task[t].llm_calls = 0
            /\ RecordsOf(t) = {}
            /\ task[t].log = <<>>
            /\ task[t].gate # ""
C3_GateSkipsWithoutClassifying == [][C3_Step]_vars /\ []C3_State

C3_Witness ==
    \E t \in Tasks :
        /\ task[t].pc = "skipped"
        /\ task[t].gate = "whitelist"
        /\ ~(\E i \in 1 .. Len(users) : users[i].is_global_whitelisted)
        /\ task[t].llm_calls = 0
        /\ RecordsOf(t) = {}

LowConfidenceScam(res) ==
    res.kind = "verdict" /\ res.label = "SCAM"
        /\ res.confidence < default_confidence_threshold

\* C4: a verdict SCAM below the threshold is not effective scam; its record
\* is persisted with skip reason "low_confidence"; strike_count is unchanged;
\* nothing is deleted, enforced or notified.
C4_Step ==
    \A t \in Tasks :
        Classifies(t) /\ LowConfidenceScam(task'[t].result) =>
            /\ ~task'[t].is_scam_policy
            /\ task'[t].pc = "done"
            /\ Len(messages') = Len(messages) + 1
            /\ messages'[Len(messages')].telegram_message_id = t
            /\ messages'[Len(messages')].model_label = "SCAM"
            /\ ~messages'[Len(messages')].is_scam_effective
            /\ messages'[Len(messages')].skipped_reason = "low_confidence"
            /\ \A c \in ChatIds, u \in UserIds :
                  StrikeOf(chats', users', members', c, u) = Strike(c, u)
            /\ cards' = cards
C4_State ==
    \A t \in Tasks :
        LowConfidenceScam(task[t].result) =>
            /\ task[t].pc = "done"
            /\ task[t].log = <<>>
            /\ task[t].new_strike_count = NULL
            /\ \A k \in 1 .. Len(cards) : cards[k].message_db_id \notin RecordsOf(t)
C4_LowConfidenceOnlyRecorded == [][C4_Step]_vars /\ []C4_State

C4_Witness ==
    \E t \in Tasks :
        /\ task[t].pc = "done"
        /\ LowConfidenceScam(task[t].result)
        /\ Strike(task[t].chat, task[t].from_user) = 2
        /\ \E i \in RecordsOf(t) : messages[i].skipped_reason = "low_confidence"

\* The responses that are a failure of the classification call.
NoVerdictResponse(resp) ==
    \/ resp.http # "ok"
    \/ resp.body # "json"
    \/ resp.envelope # "ok"
    \/ resp.content # "json"
    \/ resp.label \notin {"SCAM", "OK"}
    \/ resp.category \notin Categories
    \/ resp.confidence \notin 0 .. 100
    \/ ~resp.reason

\* C5: a classification call that yields no verdict ends the run with no
\* row created or changed, no strike, no transport call and no card; hence
\* every persisted record has all its classifier fields.
C5_Step ==
    \A t \in Tasks :
        Classifies(t) /\ task'[t].result.kind # "verdict" =>
            /\ task'[t].pc \in {"no_verdict", "aborted"}
            /\ UNCHANGED <<chats, users, members, messages, cards>>
            /\ task'[t].log = <<>>
C5_State ==
    /\ \A resp \in LlmResponses :
          NoVerdictResponse(resp) <=> classify_text(resp).kind # "verdict"
    /\ \A t \in Tasks :
          task[t].pc = "no_verdict" =>
              /\ task[t].result.kind = "none"
              /\ RecordsOf(t) = {}
              /\ task[t].log = <<>>
    /\ \A i \in 1 .. Len(messages) :
          /\ messages[i].model_label \in {"SCAM", "OK"}
          /\ messages[i].model_category \in Categories
          /\ messages[i].model_confidence \in 0 .. 100
C5_NoVerdictStopsThePipeline == [][C5_Step]_vars /\ []C5_State

C5_Witness ==
    \E t \in Tasks :
        /\ task[t].pc = "no_verdict"
        /\ task[t].llm_calls = 1
        /\ chats = <<>> /\ users = <<>> /\ members = <<>> /\ messages = <<>>

\* C6: strike_count never decreases; it changes only by +1, in the PERSISTED
\* step of an effective-scam message of that very (chat, participant) pair.
C6_Step ==
    \/ UNCHANGED <<chats, users, members>>
    \/ \A c \in ChatIds, u \in UserIds :
          LET before == Strike(c, u)
              after == StrikeOf(chats', users', members', c, u)
          IN  /\ after >= before
              /\ after # before =>
                    /\ after = before + 1
                    /\ \E t \in Tasks :
                          /\ Classifies(t)
                          /\ task'[t].pc = "delete"
                          /\ task'[t].is_scam_policy
                          /\ task[t].chat = c
                          /\ task[t].from_user = u
C6_StrikesOnlyGrowInPersist == [][C6_Step]_vars

C6_Witness ==
    \E t \in Tasks :
        /\ task[t].pc = "done"
        /\ task[t].is_scam_policy
        /\ task[t].chat = 2
        /\ Strike(2, task[t].from_user) = 1
        /\ Strike(1, 1) = 4

\* The admin chat chat_id is bound to (NULL: none, or no row yet).
BoundTo(chat_id) ==
    LET c == ChatRow(chats, chat_id)
    IN  IF c = 0 THEN NULL ELSE chats[c].admin_chat_telegram_id

\* The destinations of the notification cards a run has sent, in order.
CardSends(log) ==
    LET P(e) == e.op = "send_message" /\ e.what = "card"
        sel == SelectSeq(log, P)
    IN  [i \in 1 .. Len(sel) |-> sel[i].to]

ActionOfCount == <<"WARN", "MUTE", "BAN">>
FirstCallOf ==
    [WARN |-> "send_message", MUTE |-> "restrict_chat_member", BAN |-> "ban_chat_member"]

\* The k-th message of the scenario has run to its end as a confirmed scam
\* with strike k and the k-th enforcement action.
ScenarioRun(k) ==
    /\ task[k].is_scam_policy
    /\ task[k].saved_message_id \in RecordsOf(k)
    /\ messages[task[k].saved_message_id].is_scam_effective
    /\ task[k].new_strike_count = k
    /\ Cardinality(Enforcements(task[k].log)) = 1
    /\ LET e == EnforcementLog(task[k].log)
       IN  /\ e[1][1] = FirstCallOf[ActionOfCount[k]]
           /\ e[Len(e)] = <<"send_message", ActionOfCount[k], 0>>

\* C7: three scam messages above the threshold, one after another, in a chat
\* with no bound admin chat and no global admin chats: three effective
\* records, strikes 1, 2, 3, actions WARN, MUTE, BAN in that order, and no
\* notification send at all.
C7_ThreeScamsNoAdminChat ==
    BoundTo(1) = NULL /\ GlobalAdminChats = {} =>
        /\ \A k \in 1 .. 3 :
              /\ task[k].pc = "done" => ScenarioRun(k)
              /\ CardSends(task[k].log) = <<>>
              /\ task[k].pc # "notify"
        /\ cards = <<>>
        /\ Strike(1, 1) = Cardinality({k \in Tasks : task[k].new_strike_count # NULL})

C7_Witness ==
    /\ BoundTo(1) = NULL /\ GlobalAdminChats = {}
    /\ \A k \in 1 .. 3 : task[k].pc = "done" /\ ScenarioRun(k)
    /\ Len(messages) = 3
    /\ cards = <<>>

\* C8: with the chat bound to admin chat A and no global admin chats, each
\* of three confirmed-scam messages produces exactly one card, sent to A, and
\* the cards show strikes 1, 2 and 3.
C8_ThreeScamsBoundAdminChat ==
    BoundTo(1) # NULL /\ GlobalAdminChats = {} =>
        \A k \in 1 .. 3 :
            task[k].pc = "done" =>
                /\ ScenarioRun(k)
                /\ CardSends(task[k].log) = <<BoundTo(1)>>
                /\ \E i \in 1 .. Len(cards) :
                      /\ cards[i].message_db_id = task[k].saved_message_id
                      /\ cards[i].chat = BoundTo(1)
                      /\ cards[i].strikes = k
                      /\ \A j \in 1 .. Len(cards) :
                            cards[j].message_db_id = task[k].saved_message_id => j = i

C8_Witness ==
    /\ BoundTo(1) = 2 /\ GlobalAdminChats = {}
    /\ \A k \in 1 .. 3 : task[k].pc = "done" /\ CardSends(task[k].log) = <<2>>
    /\ Len(cards) = 3
    /\ \A k \in 1 .. 3 : cards[k].strikes = k /\ cards[k].chat = 2

\* The ids settings.admin_chat_ids configures, in the order written.
ConfiguredIds ==
    LET P(part) == part.kind = "int"
        sel == SelectSeq(admin_chat_ids, P)
    IN  [i \in 1 .. Len(sel) |-> sel[i].val]

FirstAt(seq, x) == CHOOSE i \in 1 .. Len(seq) : seq[i] = x /\ \A j \in 1 .. i - 1 : seq[j] # x

\* C9: the targets are the bound admin chat first, then every global id in
\* configured order that is not already listed, with no duplicates; they are
\* empty exactly when there is neither a binding nor a global id, and then
\* nothing is sent. The cards of a run go to the targets in that order.
C9_TargetsBoundFirstNoDuplicates ==
    LET bound == BoundTo(1)
        tg == notify_targets(admin_chat_ids, chats, 1)
        rest == IF bound # NULL THEN Tail(tg) ELSE tg
    IN  /\ bound # NULL => tg # <<>> /\ Head(tg) = bound
        /\ Range(tg) = ({bound} \ {NULL}) \cup Range(ConfiguredIds)
        /\ \A i, j \in 1 .. Len(tg) : i # j => tg[i] # tg[j]
        /\ \A i, j \in 1 .. Len(rest) :
              i < j => FirstAt(ConfiguredIds, rest[i]) < FirstAt(ConfiguredIds, rest[j])
        /\ tg = <<>> <=> (bound = NULL /\ ConfiguredIds = <<>>)
        /\ \A t \in Tasks :
              /\ task[t].pc = "done" /\ task[t].is_scam_policy
                    => CardSends(task[t].log) = tg
              /\ task[t].pc = "notify"
                    => /\ tg # <<>>
                       /\ CardSends(task[t].log) = SubSeq(tg, 1, task[t].sent)
              /\ tg = <<>> => CardSends(task[t].log) = <<>>

C9_Witness ==
    /\ BoundTo(1) = 3
    /\ ConfiguredIds = <<2, 3>>
    /\ \E t \in Tasks : task[t].pc = "done" /\ CardSends(task[t].log) = <<3, 2>>

\* The alerts a rejected press can end with: the rejection itself or, when
\* the store may fail, the exception of the failed lookup.
Refusals == {"no_access"} \cup (IF "db" \in faults THEN {"error"} ELSE {})

\* C10: a button pressed in a chat that is neither a global admin chat nor
\* the admin chat bound to the record's source chat is rejected: the record's
\* human label, timestamp and reviewer are unchanged, no reviewer row is
\* created or refreshed, and the card is not edited, neither when the press
\* is handled nor in any later step of that handler; a card is edited only
\* by the edit_text of an accepted press made from it.
C10_Step ==
    /\ overrides' # overrides =>
          LET k == callback'.card
              message_db_id == cards[k].message_db_id
              source == chats[messages[message_db_id].chat_id]
          IN  (/\ cards[k].chat \notin GlobalAdminChats
               /\ source.admin_chat_telegram_id # cards[k].chat)
              => /\ messages' = messages
                 /\ users' = users
                 /\ cards' = cards
                 /\ callback'.answer \in Refusals
                 /\ callback'.pc # "edit"
    /\ \A p \in DOMAIN presses :
          (presses[p].answer # "labelled" /\ presses'[p] # presses[p]) =>
              /\ presses[p].pc = "answer" /\ presses'[p].pc = "done"
              /\ ~presses'[p].edited
              /\ UNCHANGED <<chats, users, members, messages, cards, task>>
    /\ \A k \in 1 .. Len(cards) :
          cards'[k] # cards[k] =>
              \E p \in DOMAIN presses :
                  /\ presses[p].pc = "edit" /\ presses'[p].pc # "edit"
                  /\ presses[p].answer = "labelled" /\ presses[p].card = k
C10_ForeignChatOverrideRejected == [][C10_Step]_vars

C10_Witness ==
    /\ callback.answer = "no_access"
    /\ callback.pc = "done" /\ callback.confirmation = "sent"
    /\ callback.from_user \notin {users[i].telegram_user_id : i \in 1 .. Len(users)}
    /\ \A i \in 1 .. Len(messages) : messages[i].human_label = None
    /\ cards[callback.card].decision = None

\* The record a handled button press referred to.
PressedRecord == cards[callback.card].message_db_id

\* C11: an accepted override stores its label whatever label was stored
\* before (last write wins, in either order of SCAM and NOT_SCAM), and no
\* override changes the strike_count of any (chat, participant) pair.
C11_Step ==
    /\ presses' # presses =>
          \A c \in ChatIds, u \in UserIds :
              StrikeOf(chats', users', members', c, u) = Strike(c, u)
    /\ overrides' # overrides =>
        /\ callback'.answer = "labelled" =>
              LET r == cards[callback'.card].message_db_id
              IN  /\ messages'[r].human_label = callback'.label
                  /\ messages'[r].human_labeled_at = Stamp
                  /\ users'[messages'[r].human_labeled_by].telegram_user_id
                        = callback'.from_user
C11_State ==
    /\ callback.answer = "labelled" =>
          messages[PressedRecord].human_label = callback.label
    /\ Strike(1, 1) = 1
C11_LastOverrideWins == [][C11_Step]_vars /\ []C11_State

C11_Witness ==
    /\ overrides = 2
    /\ \A p \in DOMAIN presses : presses[p].pc = "done"
    /\ callback.answer = "labelled"
    /\ callback.label = "NOT_SCAM"
    /\ messages[PressedRecord].human_label = "NOT_SCAM"
    /\ \E k \in 1 .. Len(cards) :
          /\ k # callback.card
          /\ cards[k].message_db_id = PressedRecord
          /\ cards[k].decision = "SCAM"
    /\ Strike(1, 1) = 1

\* A record with its human-override fields blanked.
Unlabelled(rec) ==
    [rec EXCEPT !.human_label = None, !.human_labeled_at = None,
                !.human_labeled_by = NULL]

\* C12: a button press, accepted or rejected, in every step of its handler
\* (the labelling, edit_text, callback.answer) changes no Membership row,
\* no field of a ModerationRecord other than the human-override fields,
\* creates and deletes no record, and makes no transport call of the
\* pipeline (delete, restrict, ban); only the labelling step writes to the
\* store at all.
C12_Step ==
    presses' # presses =>
        /\ members' = members
        /\ chats' = chats
        /\ task' = task
        /\ Len(messages') = Len(messages)
        /\ \A i \in 1 .. Len(messages) :
              Unlabelled(messages'[i]) = Unlabelled(messages[i])
        /\ (overrides' # overrides /\ callback'.answer # "labelled") =>
              messages' = messages /\ users' = users
        /\ overrides' = overrides => messages' = messages /\ users' = users
C12_OverrideOnlyLabels == [][C12_Step]_vars

C12_Witness ==
    /\ callback.answer = "labelled"
    /\ callback.pc = "done" /\ callback.edited /\ callback.confirmation = "sent"
    /\ callback.label = "NOT_SCAM"
    /\ messages[PressedRecord].human_label = "NOT_SCAM"
    /\ messages[PressedRecord].is_scam_effective
    /\ \E t \in Tasks :
          /\ task[t].saved_message_id = PressedRecord
          /\ task[t].new_strike_count = 3
          /\ Strike(task[t].chat, task[t].from_user) = 3

\* Sum of strike_count over the rows i .. Len(memberTbl) of the table.
RECURSIVE SumStrikes(_, _)
SumStrikes(memberTbl, i) ==
    IF i > Len(memberTbl) THEN 0
    ELSE memberTbl[i].strike_count + SumStrikes(memberTbl, i + 1)

EffectiveRecords(messageTbl) ==
    Cardinality({i \in 1 .. Len(messageTbl) : messageTbl[i].is_scam_effective})

\* C13: when the PERSISTED step fails the run aborts: nothing of the step
\* is committed, and no deletion, enforcement or notification is attempted
\* for that message; in every step strikes and effective records are
\* committed together or not at all.
C13_Step ==
    /\ \A t \in Tasks :
          Classifies(t) /\ task'[t].pc = "aborted" =>
              /\ UNCHANGED <<chats, users, members, messages, cards>>
              /\ task'[t].log = <<>>
              /\ task'[t].saved_message_id = NULL
    /\ \/ UNCHANGED <<members, messages>>
       \/ SumStrikes(members', 1) - SumStrikes(members, 1)
             = EffectiveRecords(messages') - EffectiveRecords(messages)
C13_State ==
    \A t \in Tasks :
        /\ task[t].pc = "aborted" /\ task[t].saved_message_id = NULL =>
              /\ RecordsOf(t) = {}
              /\ task[t].log = <<>>
              /\ task[t].new_strike_count = NULL
        /\ task[t].log # <<>> => task[t].saved_message_id \in RecordsOf(t)
C13_FailedPersistAborts == [][C13_Step]_vars /\ []C13_State

C13_Witness ==
    \E t \in Tasks :
        /\ task[t].pc = "aborted"
        /\ task[t].is_scam_policy
        /\ task[t].saved_message_id = NULL
        /\ task[t].from_user = 1 /\ task[t].chat = 1
        /\ Strike(1, 1) = 2
        /\ Len(messages) = 2

\* The transport calls of a run with the given Bot methods.
CallsOf(log, ops) == {i \in 1 .. Len(log) : log[i].op \in ops}
InChatNotices(log) ==
    {i \in 1 .. Len(log) : log[i].op = "send_message" /\ log[i].what # "card"}
AfterPersisted == {"delete", "esc_call", "esc_notice", "notify", "done"}

\* C14: once the record of an effective scam is persisted, deletion,
\* enforcement and notification are each attempted whatever the outcome of
\* the step before: the run always ends normally, with one deletion attempt,
\* one enforcement attempt and a send to every target; no call is repeated,
\* and no step after PERSISTED changes a row of the store.
C14_Step ==
    \A t \in Tasks :
        task[t].pc \in AfterPersisted /\ task'[t] # task[t] =>
            /\ UNCHANGED <<chats, users, members, messages>>
            /\ task'[t].pc \in AfterPersisted
            /\ Len(task'[t].log) = Len(task[t].log) + 1
            /\ SubSeq(task'[t].log, 1, Len(task[t].log)) = task[t].log
C14_State ==
    \A t \in Tasks :
        task[t].is_scam_policy /\ task[t].saved_message_id # NULL =>
            /\ task[t].pc \in AfterPersisted
            /\ messages[task[t].saved_message_id].is_scam_effective
            /\ Strike(task[t].chat, task[t].from_user) >= task[t].new_strike_count
            /\ Cardinality(CallsOf(task[t].log, {"delete_message"})) <= 1
            /\ Cardinality(CallsOf(task[t].log,
                   {"restrict_chat_member", "ban_chat_member"})) <= 1
            /\ Cardinality(InChatNotices(task[t].log)) <= 1
            /\ task[t].pc # "delete" =>
                  /\ task[t].log # <<>>
                  /\ task[t].log[1].op = "delete_message"
            /\ task[t].pc \in {"notify", "done"} =>
                  Cardinality(Enforcements(task[t].log)) = 1
            /\ task[t].pc = "done" =>
                  CardSends(task[t].log)
                      = notify_targets(admin_chat_ids, chats, task[t].chat)
C14_StepsAfterPersistIndependent == [][C14_Step]_vars /\ []C14_State

C14_Witness ==
    \E t \in Tasks :
        /\ task[t].pc = "done"
        /\ task[t].new_strike_count = 3
        /\ Len(task[t].log) = 3
        /\ task[t].log[1].op = "delete_message" /\ ~task[t].log[1].ok
        /\ task[t].log[2].op = "ban_chat_member" /\ ~task[t].log[2].ok
        /\ task[t].log[3].op = "send_message" /\ task[t].log[3].what = "card"
        /\ Strike(task[t].chat, task[t].from_user) = 3
        /\ messages[task[t].saved_message_id].is_scam_effective

\* C15: a scam event with resolved destinations d1..dn attempts exactly one
\* send to each, in resolved order, whether or not an earlier send failed;
\* the cards delivered are those of the sends that succeeded.
C15_State ==
    \A t \in Tasks :
        /\ task[t].pc = "notify" =>
              /\ task[t].sent < Len(task[t].targets)
              /\ CardSends(task[t].log) = SubSeq(task[t].targets, 1, task[t].sent)
        /\ task[t].pc = "done" /\ task[t].is_scam_policy =>
              /\ CardSends(task[t].log) = task[t].targets
              /\ \A d \in Range(task[t].targets) :
                    Cardinality({i \in 1 .. Len(task[t].log) :
                        /\ task[t].log[i].op = "send_message"
                        /\ task[t].log[i].what = "card"
                        /\ task[t].log[i].to = d}) = 1
        /\ \A i \in 1 .. Len(task[t].log) :
              task[t].log[i].op = "send_message" /\ task[t].log[i].what = "card" =>
                  (task[t].log[i].ok <=>
                      \E k \in 1 .. Len(cards) :
                          /\ cards[k].chat = task[t].log[i].to
                          /\ cards[k].message_db_id = task[t].saved_message_id)
C15_Step ==
    \A t \in Tasks :
        task[t].pc = "notify" /\ task'[t] # task[t] =>
            /\ task'[t].targets = task[t].targets
            /\ task'[t].sent = task[t].sent + 1
            /\ task'[t].log[Len(task'[t].log)].to = task[t].targets[task[t].sent + 1]
C15_OneSendPerDestination == [][C15_Step]_vars /\ []C15_State

C15_Witness ==
    \E t \in Tasks :
        /\ task[t].pc = "done"
        /\ task[t].targets = <<3, 2>>
        /\ CardSends(task[t].log) = <<3, 2>>
        /\ \E i \in 1 .. Len(task[t].log) :
              task[t].log[i].what = "card" /\ task[t].log[i].to = 3 /\ ~task[t].log[i].ok
        /\ Len(cards) = 1
        /\ cards[1].chat = 2

\* C16 as stated: the store calls of the PERSISTED step are suspension
\* points, so while one task is inside the step a sibling task waiting for
\* its verdict can be given its turn and read the same strike_count.
C16_PersistenceYieldsToSiblings ==
    \A t, u \in Tasks :
        t # u /\ task[t].pc = "persist" /\ task[u].pc = "classify" =>
            ENABLED persist_begin(u)

\* C16 as amended: concurrently handled confirmed-scam messages of one
\* (chat, participant) pair never lose an increment: the count equals the
\* number of effective records of the pair, the counts the tasks obtained
\* are pairwise different, and at most one task is inside the step.
C16_NoLostStrike ==
    /\ Cardinality({t \in Tasks : task[t].pc = "persist"}) <= 1
    /\ (\A t \in Tasks : task[t].pc # "persist") =>
          Strike(1, 1) = EffectiveRecords(messages)
    /\ \A t, u \in Tasks :
          /\ t # u
          /\ task[t].new_strike_count # NULL
          /\ task[u].new_strike_count # NULL
          => task[t].new_strike_count # task[u].new_strike_count

C16_Witness ==
    /\ messages # <<>>
    /\ Len(messages) = 2
    /\ task[1].pc \in {"delete", "esc_call"}
    /\ task[2].pc = "done"
    /\ task[2].new_strike_count = 1
    /\ task[1].new_strike_count = 2
    /\ Strike(1, 1) = 2

\* C17: at most one classification request is issued per inbound message:
\* none while the gate has not passed or when it skips, one otherwise; the
\* count never changes after the request is issued, and a run that got no
\* verdict does nothing more.
C17_Step ==
    \A t \in Tasks :
        /\ task'[t].llm_calls # task[t].llm_calls =>
              /\ task[t].pc = "is_admin"
              /\ task'[t].pc = "classify"
              /\ task[t].llm_calls = 0
        /\ task[t].pc \in {"no_verdict", "aborted", "skipped", "done"} =>
              task'[t] = task[t]
C17_State ==
    \A t \in Tasks :
        /\ task[t].llm_calls <= 1
        /\ task[t].pc \in {"idle", "is_admin", "skipped"} <=> task[t].llm_calls = 0
        /\ task[t].result.kind \in {"none", "raise"} =>
              task[t].pc \in {"no_verdict", "aborted"}
C17_AtMostOneClassification == [][C17_Step]_vars /\ []C17_State

C17_Witness ==
    \E t \in Tasks :
        /\ task[t].pc = "no_verdict"
        /\ task[t].result.kind = "none"
        /\ task[t].llm_calls = 1
        /\ Strike(1, 1) = 4

\* The run of task t met a failure: no verdict, an exception that left the
\* handler, or a transport call that raised.
RunEnded == {"done", "skipped", "no_verdict", "aborted"}
FailedRun(t) ==
    /\ task[t].pc \in RunEnded
    /\ \/ task[t].pc \in {"no_verdict", "aborted"}
       \/ \E i \in 1 .. Len(task[t].log) : ~task[t].log[i].ok
CleanRun(t) ==
    /\ task[t].pc = "done"
    /\ \A i \in 1 .. Len(task[t].log) : task[t].log[i].ok

\* C18: whatever way earlier runs ended, the next message is taken up; a
\* message past the gate is classified once; its verdict, once persisted, is
\* stored under the message with the policy's decision and the strike count
\* equals the number of effective records (a failed run left nothing
\* behind); an effective scam that ran to its end had its deletion, one
\* enforcement action and a send to every resolved admin chat attempted.
C18_FailureDoesNotBlockLaterMessages ==
    \A t \in Tasks :
        /\ task[t].pc = "idle" /\ (\A p \in Tasks : p < t => task[p].pc \in RunEnded) =>
              ENABLED handle_message_in_turn(t)
        /\ task[t].pc = "is_admin" => ENABLED handle_message_gate(t)
        /\ task[t].pc = "classify" =>
              task[t].llm_calls = 1 /\ ENABLED handle_message_answered(t)
        /\ task[t].pc \in AfterPersisted /\ task[t].result.kind = "verdict" =>
              /\ task[t].saved_message_id \in RecordsOf(t)
              /\ messages[task[t].saved_message_id].is_scam_effective
                    = is_scam_policy(task[t].result)
              /\ ConfirmedScam(task[t].result) =>
                    task[t].new_strike_count =
                        EffectiveRecords(SubSeq(messages, 1, task[t].saved_message_id))
        /\ Strike(1, 1) = EffectiveRecords(messages)
        /\ task[t].pc = "done" /\ ConfirmedScam(task[t].result) =>
              /\ Cardinality(CallsOf(task[t].log, {"delete_message"})) = 1
              /\ Cardinality(Enforcements(task[t].log)) = 1
              /\ task[t].targets = notify_targets(admin_chat_ids, chats, task[t].chat)
              /\ CardSends(task[t].log) = task[t].targets
              /\ CleanRun(t) =>
                    \A i \in 1 .. Len(task[t].targets) :
                        \E c \in 1 .. Len(cards) :
                            /\ cards[c].chat = task[t].targets[i]
                            /\ cards[c].message_db_id = task[t].saved_message_id

C18_Witness ==
    /\ Len(task) >= 2
    /\ task[1].pc = "aborted" /\ task[1].result.kind = "verdict"
    /\ FailedRun(1)
    /\ CleanRun(2) /\ ConfirmedScam(task[2].result)
    /\ task[2].new_strike_count = 2
    /\ Len(cards) = 2

\* The chats whose row is bound to x, by telegram id.
ChatsBoundTo(x) == {c \in ChatIds : BoundTo(c) = x}
AdminChatCandidates == ChatIds \cup {4}

\* C19: is_admin_chat_id(x) holds iff x is a configured global id or some
\* chat's row is bound to x; _get_managed_chats(x) is exactly the rows bound
\* to x, each once; so for a non-global x the first holds iff the second is
\* non-empty. (When the lookup raises, only the global ids answer True.)
C19_AdminChatQueries ==
    \A x \in AdminChatCandidates :
        LET managed == _get_managed_chats(chats, x)
            isAdminChat == is_admin_chat_id(admin_chat_ids, chats, x, TRUE)
        IN  /\ isAdminChat <=> (x \in Range(ConfiguredIds) \/ ChatsBoundTo(x) # {})
            /\ {managed[i].telegram_chat_id : i \in 1 .. Len(managed)} = ChatsBoundTo(x)
            /\ Len(managed) = Cardinality(ChatsBoundTo(x))
            /\ Range(managed) \subseteq Range(chats)
            /\ x \notin Range(ConfiguredIds) => (isAdminChat <=> managed # <<>>)
            /\ is_admin_chat_id(admin_chat_ids, chats, x, FALSE)
                  <=> x \in Range(ConfiguredIds)

C19_Witness ==
    /\ \E c \in DOMAIN commands :
          /\ commands[c].pc = "done" /\ commands[c].answer = "bound"
          /\ commands[c].chat = 1 /\ commands[c].arg.val = 3
    /\ 3 \notin Range(ConfiguredIds)
    /\ ChatsBoundTo(3) = {1, 2}
    /\ is_admin_chat_id(admin_chat_ids, chats, 3, TRUE)
    /\ Len(_get_managed_chats(chats, 3)) = 2
    /\ ~is_admin_chat_id(admin_chat_ids, chats, 2, TRUE)

\* The answers that reject a command.
Rejections == {"not_group", "no_sender", "not_admin", "usage", "not_number"}
\* The rows of tbl other than the row of chat_id.
OtherRows(tbl, chat_id) ==
    LET P(row) == row.telegram_chat_id # chat_id
    IN  SelectSeq(tbl, P)

\* C20: a command outside a group, from a sender who is no administrator of
\* the chat, or with a missing or non-numeric id changes no row of chats and
\* is answered with the rejection of its case (unless a transport call
\* raised); a row changes only by an accepted command, which binds its own
\* chat to the id given, creating the row if absent, and leaves every other
\* row as it was.
C20_State ==
    \A c \in DOMAIN commands :
        LET r == commands[c]
            outside == ChatType[r.chat] \notin {"group", "supergroup"}
            stranger == r.from_user = NULL \/ r.from_user \notin ChatAdmins[r.chat]
        IN  r.answer # "" =>
            /\ outside \/ stranger \/ r.arg.kind # "int" =>
                  /\ r.answer \in Rejections \cup {"raised"}
                  /\ r.answer = "raised" => "tx" \in faults
                  /\ ("tx" \notin faults /\ r.pc = "done") => r.delivered
            /\ outside => r.answer = "not_group"
            /\ ~outside /\ stranger => r.answer \in {"no_sender", "not_admin", "raised"}
            /\ ~outside /\ ~stranger /\ r.arg.kind = "missing" =>
                  r.answer \in {"usage", "raised"}
            /\ ~outside /\ ~stranger /\ r.arg.kind = "bad" =>
                  r.answer \in {"not_number", "raised"}
            /\ r.answer = "bound" => ~outside /\ ~stranger /\ r.arg.kind = "int"
C20_Step ==
    /\ \A c \in DOMAIN commands' :
          (c \notin DOMAIN commands \/ commands'[c] # commands[c]) =>
              (chats' # chats =>
                  /\ c \in DOMAIN commands
                  /\ commands[c].pc = "get_chat_member"
                  /\ commands'[c].answer = "bound")
    /\ chats' # chats => commands' # commands
    /\ \A c \in DOMAIN commands :
          (commands[c].pc = "get_chat_member" /\ commands'[c].answer = "bound") =>
              LET r == commands[c] IN
              /\ commands'[c].pc = "answer"
              /\ ChatRow(chats', r.chat) # 0
              /\ chats'[ChatRow(chats', r.chat)].admin_chat_telegram_id = r.arg.val
              /\ OtherRows(chats', r.chat) = OtherRows(chats, r.chat)
              /\ Len(chats') = Len(chats) + (IF ChatRow(chats, r.chat) = 0 THEN 1 ELSE 0)
              /\ ChatRow(chats, r.chat) # 0 =>
                    chats' = [chats EXCEPT ![ChatRow(chats, r.chat)].admin_chat_telegram_id
                                               = r.arg.val]
C20_BindRejectedOrOnlyThatChat == [](C20_State) /\ [][C20_Step]_vars

C20_Witness ==
    /\ faults = {}
    /\ \E c \in DOMAIN commands :
          /\ commands[c].pc = "done"
          /\ commands[c].answer = "not_admin" /\ commands[c].delivered
          /\ commands[c].chat = 1 /\ commands[c].from_user = 1
    /\ chats = <<ChatRec(2, 2), ChatRec(1, 3)>>

\* The persisted effective-scam records of the pair (chat row c, user row u).
ScamRecordsOf(c, u) ==
    {i \in 1 .. Len(messages) :
        /\ messages[i].chat_id = c
        /\ messages[i].user_id = u
        /\ messages[i].is_scam_effective}

\* C21: from empty tables, in every reachable state of concurrently handled
\* messages (aborted runs included), each membership's strike_count is the
\* number of persisted effective-scam records of its pair, every effective
\* record has its membership row, and a step changes a strike_count only
\* together with appending one record.
C21_State ==
    /\ \A m \in 1 .. Len(members) :
          members[m].strike_count
              = Cardinality(ScamRecordsOf(members[m].chat_id, members[m].user_id))
    /\ \A i \in 1 .. Len(messages) :
          \E m \in 1 .. Len(members) :
              /\ members[m].chat_id = messages[i].chat_id
              /\ members[m].user_id = messages[i].user_id
    /\ \A m, n \in 1 .. Len(members) :
          members[m].chat_id = members[n].chat_id
              /\ members[m].user_id = members[n].user_id => m = n
C21_Step ==
    \/ UNCHANGED <<members, messages>>
    \/ /\ Len(messages') = Len(messages) + 1
       /\ SubSeq(messages', 1, Len(messages)) = messages
       /\ SumStrikes(members', 1) - SumStrikes(members, 1)
             = (IF messages'[Len(messages')].is_scam_effective THEN 1 ELSE 0)
C21_StrikesCountEffectiveRecords == [][C21_Step]_vars /\ []C21_State

C21_Witness ==
    \E t, u \in Tasks :
        /\ task[t].pc = "aborted" /\ ConfirmedScam(task[t].result)
        /\ task[t].saved_message_id = NULL
        /\ task[u].pc = "done" /\ ConfirmedScam(task[u].result)
        /\ task[u].chat = task[t].chat /\ task[u].from_user = task[t].from_user
        /\ Len(members) = 1 /\ members[1].strike_count = 1
        /\ Cardinality(ScamRecordsOf(1, 1)) = 1

\* The place of a transport call in the order of the pipeline: deletion,
\* restrict or ban, in-chat notice, notification card.
Rank(e) ==
    IF e.op = "delete_message" THEN 1
    ELSE IF e.op \in {"restrict_chat_member", "ban_chat_member"} THEN 2
    ELSE IF e.op = "send_message" /\ e.what # "card" THEN 3
    ELSE 4

\* C22: a run makes no transport call before its record and strike are
\* committed, and commits only after its one classification returned a
\* verdict; its calls come in the order deletion, restrict/ban, in-chat
\* notice, cards, the deletion being the first call of every effective-scam
\* run; the commit step itself makes no call.
C22_State ==
    \A t \in Tasks :
        LET log == task[t].log IN
        /\ log # <<>> =>
              /\ task[t].saved_message_id \in RecordsOf(t)
              /\ messages[task[t].saved_message_id].is_scam_effective
              /\ task[t].new_strike_count # NULL
              /\ log[1].op = "delete_message"
        /\ task[t].saved_message_id # NULL =>
              task[t].result.kind = "verdict" /\ task[t].llm_calls = 1
        /\ RecordsOf(t) # {} => task[t].result.kind = "verdict"
        /\ \A i, j \in 1 .. Len(log) : i < j =>
              /\ Rank(log[i]) <= Rank(log[j])
              /\ Rank(log[i]) = Rank(log[j]) => Rank(log[i]) = 4
        /\ task[t].pc \in {"esc_call", "esc_notice", "notify"} \/
           (task[t].pc = "done" /\ task[t].is_scam_policy) => log # <<>>
C22_Step ==
    \A t \in Tasks :
        /\ Classifies(t) => task'[t].log = <<>>
        /\ task'[t].log # task[t].log =>
              /\ UNCHANGED <<chats, users, members, messages>>
              /\ task[t].saved_message_id # NULL
              /\ Len(task'[t].log) = Len(task[t].log) + 1
              /\ SubSeq(task'[t].log, 1, Len(task[t].log)) = task[t].log
C22_EventsInOrder == [][C22_Step]_vars /\ []C22_State

C22_Witness ==
    \E t \in Tasks :
        /\ task[t].pc = "done"
        /\ Len(task[t].log) = 5
        /\ task[t].log[1].op = "delete_message"
        /\ task[t].log[2].op = "restrict_chat_member" /\ task[t].log[2].ok
        /\ task[t].log[3].what = "MUTE"
        /\ task[t].log[4].what = "card" /\ task[t].log[5].what = "card"
        /\ Len(cards) = 2

\* C23: every card delivered refers to an existing record that is effective
\* scam, shows that record's id and carries both override buttons with that
\* id as token, and was sent by the run that stored the record; a run that
\* was gated, got no verdict, or whose verdict is OK or SCAM below the
\* threshold sends no card at all.
C23_CardsReferToEffectiveRecords ==
    /\ \A k \in 1 .. Len(cards) :
          LET id == cards[k].message_db_id IN
          /\ id \in 1 .. Len(messages)
          /\ messages[id].is_scam_effective
          /\ messages[id].model_label = "SCAM"
          /\ messages[id].model_confidence >= default_confidence_threshold
          /\ cards[k].buttons = {<<"as_not_scam", id>>, <<"as_mark_scam", id>>}
          /\ \E t \in Tasks :
                /\ task[t].saved_message_id = id
                /\ cards[k].chat \in Range(CardSends(task[t].log))
    /\ \A t \in Tasks :
          \/ task[t].pc \in {"skipped", "no_verdict"}
          \/ task[t].result.kind # "verdict"
          \/ ~ConfirmedScam(task[t].result)
          => task[t].log = <<>> /\ task[t].targets = <<>>
    /\ Len(cards) <= Cardinality({t \in Tasks : ConfirmedScam(task[t].result)}) * 2

C23_Witness ==
    /\ Len(cards) = 2
    /\ cards[1].chat = 3 /\ cards[2].chat = 2
    /\ cards[1].message_db_id = 2
    /\ messages[2].is_scam_effective
    /\ cards[1].buttons = {<<"as_not_scam", 2>>, <<"as_mark_scam", 2>>}

OkVerdict(res) == res.kind = "verdict" /\ res.label = "OK"

\* The confidences of the OK verdicts the classifier answers with.
OkConfidences ==
    {classify_text(resp).confidence :
        resp \in {r \in LlmResponses : OkVerdict(classify_text(r))}}

\* C24: a verdict OK, whatever its confidence (below, at or above the
\* threshold), is not effective scam: its
\* record is persisted with is_scam_effective false and no skip reason, the
\* pair's membership row exists afterwards (created with strike_count 0 when
\* absent), no strike_count changes, and nothing is deleted, enforced or
\* notified.
C24_Step ==
    \A t \in Tasks :
        Classifies(t) /\ OkVerdict(task'[t].result) =>
            LET c == ChatRow(chats', task[t].chat)
                u == UserRow(users', task[t].from_user)
                m == MemberRow(members', c, u)
                m0 == MemberRow(members, ChatRow(chats, task[t].chat),
                                UserRow(users, task[t].from_user))
            IN  /\ ~task'[t].is_scam_policy
                /\ task'[t].pc = "done"
                /\ task'[t].skipped_reason = None
                /\ Len(messages') = Len(messages) + 1
                /\ SubSeq(messages', 1, Len(messages)) = messages
                /\ messages'[Len(messages')].telegram_message_id = t
                /\ messages'[Len(messages')].chat_id = c
                /\ messages'[Len(messages')].user_id = u
                /\ messages'[Len(messages')].model_label = "OK"
                /\ messages'[Len(messages')].model_confidence = task'[t].result.confidence
                /\ ~messages'[Len(messages')].is_scam_effective
                /\ messages'[Len(messages')].skipped_reason = None
                /\ c # 0 /\ u # 0 /\ m # 0
                /\ IF m0 = 0
                   THEN /\ members' = Append(members, members'[m])
                        /\ members'[m].strike_count = 0
                        /\ members'[m].last_strike_at = None
                   ELSE members' = members
                /\ cards' = cards
C24_State ==
    /\ \E below, at, above \in OkConfidences :
          /\ below < default_confidence_threshold
          /\ at = default_confidence_threshold
          /\ above > default_confidence_threshold
    /\ \A i \in 1 .. Len(messages) :
          messages[i].model_label = "OK" =>
              ~messages[i].is_scam_effective /\ messages[i].skipped_reason = None
    /\ \A t \in Tasks :
        OkVerdict(task[t].result) =>
            /\ task[t].pc = "done"
            /\ task[t].log = <<>>
            /\ task[t].targets = <<>>
            /\ task[t].new_strike_count = NULL
            /\ \A k \in 1 .. Len(cards) : cards[k].message_db_id \notin RecordsOf(t)
C24_OkVerdictOnlyRecorded == [][C24_Step]_vars /\ []C24_State

\* An OK verdict one hundredth below the threshold was recorded: not
\* effective, no skip reason, a membership row created with no strike.
C24_Witness ==
    \E t \in Tasks :
        /\ task[t].pc = "done"
        /\ OkVerdict(task[t].result)
        /\ task[t].result.confidence = default_confidence_threshold - 1
        /\ task[t].skipped_reason = None
        /\ Len(members) = 1 /\ members[1].strike_count = 0
        /\ members[1].last_strike_at = None
        /\ \E i \in RecordsOf(t) :
              /\ ~messages[i].is_scam_effective
              /\ messages[i].skipped_reason = None
              /\ messages[i].model_confidence = default_confidence_threshold - 1

\* The restrict and ban calls of a log, and the positions of its notices.
Restrictions(log) == CallsOf(log, {"restrict_chat_member", "ban_chat_member"})

\* C25: a run whose action is MUTE or BAN makes the restrict or ban call
\* exactly once, as the call that follows the deletion and before any
\* notice; the notice (one, naming the action) is in the log exactly when
\* that call returned; after a call that raised there is no notice and no
\* second call.
C25_RestrictOnceThenNotice ==
    \A t \in Tasks :
        LET log == task[t].log
            action == apply_escalation(task[t].new_strike_count)
        IN  /\ Cardinality(Restrictions(log)) <= 1
            /\ Cardinality(InChatNotices(log)) <= 1
            /\ \A i \in Restrictions(log) :
                  /\ action \in {"MUTE", "BAN"}
                  /\ i = 2
                  /\ log[i].op = FirstCallOf[action]
                  /\ \A j \in InChatNotices(log) : j = i + 1 /\ log[i].ok
                  /\ ~log[i].ok => InChatNotices(log) = {}
            /\ \A j \in InChatNotices(log) :
                  /\ log[j].what = action
                  /\ action \in {"MUTE", "BAN"} => Restrictions(log) = {j - 1}
            /\ task[t].is_scam_policy /\ action \in {"MUTE", "BAN"}
                  /\ task[t].pc \in {"notify", "done"} =>
                  /\ Cardinality(Restrictions(log)) = 1
                  /\ log[2].ok <=> Cardinality(InChatNotices(log)) = 1

C25_Witness ==
    \E t \in Tasks :
        /\ task[t].pc = "done"
        /\ apply_escalation(task[t].new_strike_count) = "BAN"
        /\ Restrictions(task[t].log) = {2}
        /\ ~task[t].log[2].ok
        /\ InChatNotices(task[t].log) = {}
        /\ Len(task[t].log) = 3

\* apply_escalation is being called, or has been called, by run t.
EscalationInvoked(t) ==
    \/ task[t].pc \in {"esc_call", "esc_notice"}
    \/ Enforcements(task[t].log) # {}
    \/ CallsOf(task[t].log, {"delete_message"}) # {}
           /\ task[t].pc \in {"notify", "done", "aborted"}

\* C26: apply_escalation is called only by a run whose message is effective
\* scam, and the strike_count it is given is an integer >= 1, equal to the
\* pair's count as committed with the record; a run that is not effective
\* scam holds no count and never reaches the call.
C26_State ==
    \A t \in Tasks :
        /\ task[t].pc = "delete" \/ EscalationInvoked(t) =>
              /\ task[t].is_scam_policy
              /\ ConfirmedScam(task[t].result)
              /\ task[t].new_strike_count # NULL
              /\ task[t].new_strike_count \in Nat
              /\ task[t].new_strike_count >= 1
              /\ apply_escalation(task[t].new_strike_count) \in {"WARN", "MUTE", "BAN"}
        /\ ~task[t].is_scam_policy =>
              task[t].new_strike_count = NULL /\ task[t].log = <<>>
C26_Step ==
    \A t \in Tasks :
        task[t].pc = "delete" /\ task'[t].pc # "delete" =>
            /\ task[t].new_strike_count
                  <= StrikeOf(chats, users, members, task[t].chat, task[t].from_user)
            /\ task'[t].new_strike_count = task[t].new_strike_count
C26_EscalationGetsPositiveCount == [][C26_Step]_vars /\ []C26_State

C26_Witness ==
    \E t \in Tasks :
        /\ task[t].pc = "esc_notice"
        /\ task[t].new_strike_count = 1
        /\ Len(members) = 1 /\ members[1].strike_count = 1
        /\ Len(messages) = 1
        /\ apply_escalation(task[t].new_strike_count) = "WARN"

\* A record without what identifies the message it was made for.
Anonymous(rec) == [rec EXCEPT !.telegram_message_id = 0]
\* The columns of a record the model keeps.
RecordColumns ==
    {"chat_id", "user_id", "telegram_message_id", "text", "model_label", "model_category",
     "model_confidence", "human_label", "human_labeled_at", "human_labeled_by",
     "is_scam_effective", "skipped_reason"}

\* C27 as stated: the inserted record captures the new strike count, that
\* is, the count a run obtained can be read off the record it inserted:
\* records that agree in every column but the message they belong to were
\* inserted with the same count.
C27_RecordCapturesStrikeCount ==
    \A t, u \in Tasks :
        /\ task[t].saved_message_id # NULL
        /\ task[u].saved_message_id # NULL
        /\ Anonymous(messages[task[t].saved_message_id])
              = Anonymous(messages[task[u].saved_message_id])
        => task[t].new_strike_count = task[u].new_strike_count

\* C27 as amended: the PERSISTED step captures the new strike count in the
\* run's local new_strike_count, not in the record (which has no column for
\* it): for an effective-scam message it is the pair's strike_count as
\* committed by that step, for any other message it is null; the record
\* inserted holds the verdict and the policy's decision only.
C27_Step ==
    \A t \in Tasks :
        Classifies(t) /\ task'[t].saved_message_id # NULL =>
            LET rec == messages'[task'[t].saved_message_id] IN
            /\ task'[t].saved_message_id = Len(messages')
            /\ DOMAIN rec = RecordColumns
            /\ rec.is_scam_effective = ConfirmedScam(task'[t].result)
            /\ task'[t].new_strike_count =
                  IF rec.is_scam_effective
                  THEN StrikeOf(chats', users', members', task[t].chat, task[t].from_user)
                  ELSE NULL
            /\ rec.is_scam_effective =>
                  task'[t].new_strike_count
                      = StrikeOf(chats, users, members, task[t].chat, task[t].from_user) + 1
C27_State ==
    \A t \in Tasks :
        /\ task[t].saved_message_id # NULL =>
              (task[t].new_strike_count = NULL
                  <=> ~messages[task[t].saved_message_id].is_scam_effective)
        /\ \A k \in 1 .. Len(cards) :
              cards[k].message_db_id = task[t].saved_message_id =>
                  cards[k].strikes = task[t].new_strike_count
C27_StrikeCountIsLocal == [][C27_Step]_vars /\ []C27_State

C27_Witness ==
    \E t, u \in Tasks :
        /\ task[t].saved_message_id = 1 /\ task[u].saved_message_id = 2
        /\ task[t].new_strike_count = NULL
        /\ ~messages[1].is_scam_effective
        /\ task[u].new_strike_count = 1
        /\ messages[2].is_scam_effective
        /\ task[u].chat = task[t].chat /\ task[u].from_user = task[t].from_user

\* The override callbacks that labelled record i, in the order handled.
Labellings(i) ==
    {p \in DOMAIN presses :
        presses[p].answer = "labelled" /\ presses[p].message_db_id = i}

\* C28: with override callbacks handled concurrently, every record's
\* human-override fields are all null or all set; a set label is SCAM or
\* NOT_SCAM; label and reviewer are those of one and the same callback, the
\* last one that labelled the record; a record no callback labelled has
\* them null.
C28_OverrideFieldsFromOneDecision ==
    \A i \in 1 .. Len(messages) :
        LET rec == messages[i] IN
        IF Labellings(i) = {}
        THEN rec = Unlabelled(rec)
        ELSE LET p == CHOOSE q \in Labellings(i) : \A r \in Labellings(i) : r <= q
             IN  /\ rec.human_label \in {"SCAM", "NOT_SCAM"}
                 /\ rec.human_labeled_at # None
                 /\ rec.human_labeled_by # NULL
                 /\ rec.human_label = presses[p].label
                 /\ rec.human_labeled_by = UserRow(users, presses[p].from_user)

C28_Witness ==
    /\ Len(presses) = 2
    /\ presses[1].pc = "edit" /\ presses[2].pc = "edit"
    /\ presses[1].message_db_id = presses[2].message_db_id
    /\ presses[1].card # presses[2].card
    /\ presses[1].from_user # presses[2].from_user
    /\ presses[1].label # presses[2].label
    /\ messages[1].human_label = presses[2].label
    /\ messages[1].human_labeled_by = UserRow(users, presses[2].from_user)

\* The card's content as notify_admins_about_scam sent it.
OriginalText(k) == CardBody(messages[cards[k].message_db_id].text)
DecisionLine(label) == <<Marker, label>>

\* C29: the same decision by the same reviewer on the same card, handled
\* twice, leaves the label and reviewer of handling it once; and a card's
\* text is its original content, followed after an override's edit by
\* exactly one decision line, that of the edit applied last.
C29_IdempotentOneDecisionLine ==
    /\ \A p, q \in DOMAIN presses :
          /\ p < q /\ q = Len(presses)
          /\ presses[p].answer = "labelled" /\ presses[q].answer = "labelled"
          /\ presses[p].card = presses[q].card
          /\ presses[p].from_user = presses[q].from_user
          /\ presses[p].label = presses[q].label
          => LET rec == messages[presses[q].message_db_id]
             IN  /\ rec.human_label = presses[p].label
                 /\ rec.human_labeled_by = UserRow(users, presses[p].from_user)
    /\ \A k \in 1 .. Len(cards) :
          cards[k].text =
              IF cards[k].decision = None THEN OriginalText(k)
              ELSE OriginalText(k) \o DecisionLine(cards[k].decision)

\* What holds of every card: its text is a prefix of its original content
\* (all of it when the message text holds no marker), followed after an edit
\* by exactly one decision line, that of the edit applied last.
CardsKeepOneDecisionLine ==
    \A k \in 1 .. Len(cards) :
        LET text == cards[k].text
            orig == OriginalText(k)
            lines == {i \in 1 .. Len(text) : text[i] \in {"SCAM", "NOT_SCAM"}}
        IN  /\ Cardinality(lines) = (IF cards[k].decision = None THEN 0 ELSE 1)
            /\ cards[k].decision # None =>
                  /\ text[Len(text)] = cards[k].decision
                  /\ text[Len(text) - 1] = Marker
                  /\ Len(text) - 2 <= Len(orig)
                  /\ SubSeq(text, 1, Len(text) - 2) = SubSeq(orig, 1, Len(text) - 2)
                  /\ Marker \notin Range(orig) => Len(text) - 2 = Len(orig)
            /\ cards[k].decision = None => text = orig

\* Has the pipeline of the task left a trace: a classification call, a
\* record, a strike count or a transport call?
Untouched(tk) ==
    /\ tk.llm_calls = 0
    /\ tk.result = Pending
    /\ tk.saved_message_id = NULL
    /\ tk.new_strike_count = NULL
    /\ tk.log = <<>>

\* C30: once an accepted bind command of chat D's administrator names X, X is
\* among the bound admin-chat ids, whatever rows and records X has of its
\* own; a message received in a group is skipped at the gate as an admin
\* chat exactly when, at that moment, the group is a global admin chat or
\* some chat is bound to it; and a message skipped so is never classified,
\* recorded, counted as a strike or enforced.
C30_Step ==
    /\ \A c \in DOMAIN commands :
          (commands[c].answer # "bound" /\ commands'[c].answer = "bound") =>
              /\ commands[c].arg.val
                     \in {chats'[i].admin_chat_telegram_id : i \in 1 .. Len(chats')}
              /\ messages' = messages /\ members' = members
    /\ \A t \in Tasks :
          /\ (task[t].pc = "idle" /\ task'[t].pc # "idle"
                  /\ ChatType[task'[t].chat] \in {"group", "supergroup"}) =>
                ( task'[t].chat \in GlobalAdminChats \cup BoundAdminChats
                  <=> (task'[t].pc = "skipped" /\ task'[t].gate = "admin_chat") )
          /\ (task[t].pc = "skipped" /\ task[t].gate = "admin_chat") =>
                task'[t] = task[t]
          /\ (task'[t].pc = "skipped" /\ task'[t].gate = "admin_chat"
                  /\ task[t].pc # "skipped") =>
                /\ messages' = messages /\ members' = members
                /\ users' = users /\ chats' = chats /\ cards' = cards
C30_State ==
    \A t \in Tasks :
        (task[t].pc = "skipped" /\ task[t].gate = "admin_chat") => Untouched(task[t])
C30_BoundGroupIsSkipped == [](C30_State) /\ [][C30_Step]_vars

\* User 1's first message in chat 2 was moderated (recorded as the second
\* confirmed scam of the pair); then chat 1 was bound to chat 2 and the next
\* message in chat 2 was skipped as an admin chat's; then chat 1 was bound
\* to chat 3 and the third message in chat 2 is past the gate again.
C30_Witness ==
    /\ admin_chat_ids = <<>>
    /\ Len(task) = 3
    /\ task[1].pc = "done" /\ task[1].chat = 2 /\ task[1].saved_message_id = 2
    /\ task[2].pc = "skipped" /\ task[2].gate = "admin_chat" /\ task[2].chat = 2
    /\ task[3].pc = "classify" /\ task[3].chat = 2
    /\ Len(messages) = 2
    /\ Len(chats) = 2 /\ chats[1].telegram_chat_id = 2
    /\ chats[2].telegram_chat_id = 1 /\ chats[2].admin_chat_telegram_id = 3
    /\ Len(commands) = 2
    /\ \A c \in DOMAIN commands : commands[c].answer = "bound" /\ commands[c].pc = "done"
    /\ commands[1].arg.val = 2 /\ commands[2].arg.val = 3

\* C31: a button press is authorized by the binding of the record's source
\* chat as the tables hold it when the press is handled: the press is
\* accepted exactly when the card's chat is a global admin chat or is the
\* admin chat the source chat is bound to at that moment, so a press from a
\* card delivered to an admin chat the source chat has since been rebound
\* away from is rejected and changes nothing, and a press from a global
\* admin chat is accepted whatever the binding is.
C31_Step ==
    overrides' # overrides =>
        LET k == callback'.card
            message_db_id == cards[k].message_db_id
            source == chats[messages[message_db_id].chat_id]
            is_global_admin_chat == cards[k].chat \in GlobalAdminChats
        IN  /\ callback'.answer = "labelled"
                  <=> (is_global_admin_chat
                       \/ source.admin_chat_telegram_id = cards[k].chat)
            /\ callback'.answer = "labelled" =>
                  messages'[message_db_id].human_label = callback'.label
            /\ callback'.answer # "labelled" =>
                  /\ callback'.answer \in Refusals
                  /\ UNCHANGED <<chats, users, members, messages, cards, task>>
C31_AuthorizedByCurrentBinding == [][C31_Step]_vars

\* Chat 1 was bound to chat 3 when the card of its record was delivered to
\* chat 3; chat 1 has since been rebound to chat 2, and the press from the
\* card in chat 3 was rejected, the record left unlabelled.
C31_Witness ==
    /\ callback.answer = "no_access"
    /\ callback.pc = "done" /\ callback.confirmation = "sent"
    /\ cards[callback.card].chat = 3
    /\ 3 \notin GlobalAdminChats
    /\ \E t \in Tasks :
          /\ task[t].pc = "done"
          /\ task[t].saved_message_id = PressedRecord
          /\ 3 \in Range(CardSends(task[t].log))
    /\ chats[messages[PressedRecord].chat_id].admin_chat_telegram_id = 2
    /\ \E c \in DOMAIN commands :
          commands[c].pc = "done" /\ commands[c].answer = "bound" /\ commands[c].arg.val = 2
    /\ messages[PressedRecord].human_label = None
    /\ cards[callback.card].decision = None

\* The press whose edit_text returns or raises in this step.
Editing(p) == presses[p].pc = "edit" /\ presses'[p].pc # "edit"

\* C32: a card changes only in the edit_text step of an accepted press made
\* from that very card, and then shows that press's decision; every other
\* card, the other cards of the same record included, is left as it was,
\* and no card is added or removed by an override.
C32_Step ==
    /\ Len(cards') = Len(cards)
    /\ \A k \in 1 .. Len(cards) :
          cards'[k] # cards[k] =>
              \E p \in DOMAIN presses :
                  /\ Editing(p)
                  /\ presses[p].card = k
                  /\ presses[p].answer = "labelled"
                  /\ cards'[k].decision = presses[p].label
                  /\ \A j \in 1 .. Len(cards) : j # k => cards'[j] = cards[j]
C32_OnlyThePressedCardIsEdited == [][C32_Step]_vars

\* The record was fanned out to two cards. "Scam" was pressed on the first
\* and "not scam" afterwards on the second, each edit succeeded: the record
\* is labelled NOT_SCAM while the first card still shows the decision SCAM.
C32_Witness ==
    /\ Len(cards) = 2
    /\ cards[1].message_db_id = cards[2].message_db_id
    /\ cards[1].chat # cards[2].chat
    /\ Len(presses) = 2
    /\ \A p \in DOMAIN presses : presses[p].pc = "done" /\ presses[p].edited
    /\ presses[1].card = 1 /\ presses[2].card = 2
    /\ messages[cards[1].message_db_id].human_label = "NOT_SCAM"
    /\ cards[1].decision = "SCAM"
    /\ cards[1].text = OriginalText(1) \o DecisionLine("SCAM")
    /\ cards[2].decision = "NOT_SCAM"

\* C33: an accepted override has committed the record's label, timestamp and
\* reviewer and the reviewer's row when it reaches edit_text, with no card
\* edited yet; the edit_text step, failed or not, changes no table, and the
\* handler goes on to callback.answer in either case, so every accepted
\* press that has ended did call callback.answer and its record is still
\* labelled.
C33_Step ==
    /\ Len(presses') > Len(presses) =>
          LET pr == presses'[Len(presses')]
          IN  pr.answer = "labelled" =>
                  /\ pr.pc = "edit"
                  /\ messages'[pr.message_db_id].human_label = pr.label
                  /\ messages'[pr.message_db_id].human_labeled_at = Stamp
                  /\ messages'[pr.message_db_id].human_labeled_by
                         = UserRow(users', pr.from_user)
                  /\ UserRow(users', pr.from_user) # 0
                  /\ cards' = cards
    /\ \A p \in DOMAIN presses :
          Editing(p) =>
              /\ UNCHANGED <<chats, users, members, messages>>
              /\ presses'[p].pc = "answer"
              /\ ~presses'[p].edited => cards' = cards
C33_State ==
    \A p \in DOMAIN presses :
        presses[p].answer = "labelled" =>
            /\ messages[presses[p].message_db_id].human_label \in {"SCAM", "NOT_SCAM"}
            /\ UserRow(users, presses[p].from_user) # 0
            /\ presses[p].pc = "done" => presses[p].confirmation \in {"sent", "raised"}
            /\ presses[p].pc = "edit" => ~presses[p].edited
C33_CommitBeforeEditAndConfirm == [](C33_State) /\ [][C33_Step]_vars

\* An accepted press whose edit_text raised: the card is as delivered, the
\* record carries the press's label and reviewer, and the confirmation was
\* sent.
C33_Witness ==
    /\ Len(presses) = 1
    /\ presses[1].answer = "labelled"
    /\ presses[1].pc = "done"
    /\ ~presses[1].edited
    /\ presses[1].confirmation = "sent"
    /\ cards[presses[1].card].decision = None
    /\ cards[presses[1].card].text = OriginalText(presses[1].card)
    /\ messages[presses[1].message_db_id].human_label = presses[1].label
    /\ messages[presses[1].message_db_id].human_labeled_by
           = UserRow(users, presses[1].from_user)

\* The transport calls of apply_escalation in a log agree with the action
\* selected for strike count n.
EnforcedWith(log, n) ==
    \A i \in 1 .. Len(log) :
        /\ log[i].op = "restrict_chat_member" => apply_escalation(n) = "MUTE"
        /\ log[i].op = "ban_chat_member" => apply_escalation(n) = "BAN"
        /\ (log[i].op = "send_message" /\ log[i].what # "card") =>
               log[i].what = apply_escalation(n)

\* C34: the count a run enforces with and shows on its cards is the one its
\* own PERSISTED step produced (the number of effective records of the pair
\* up to and including its own record), whatever the pair's stored count
\* has become since; runs for confirmed-scam messages of one pair hold
\* pairwise different counts.
C34_OwnStrikeCountIsUsed ==
    /\ \A t \in Tasks :
          (task[t].saved_message_id # NULL /\ task[t].is_scam_policy) =>
              /\ task[t].new_strike_count
                    = EffectiveRecords(SubSeq(messages, 1, task[t].saved_message_id))
              /\ task[t].new_strike_count <= Strike(task[t].chat, task[t].from_user)
              /\ EnforcedWith(task[t].log, task[t].new_strike_count)
              /\ \A k \in 1 .. Len(cards) :
                    cards[k].message_db_id = task[t].saved_message_id =>
                        cards[k].strikes = task[t].new_strike_count
    /\ \A t, u \in Tasks :
          (/\ t # u
           /\ task[t].saved_message_id # NULL /\ task[u].saved_message_id # NULL
           /\ task[t].chat = task[u].chat /\ task[t].from_user = task[u].from_user)
          => /\ task[t].new_strike_count # task[u].new_strike_count
             /\ \A j, k \in 1 .. Len(cards) :
                   (/\ cards[j].message_db_id = task[t].saved_message_id
                    /\ cards[k].message_db_id = task[u].saved_message_id)
                   => cards[j].strikes # cards[k].strikes

\* Two confirmed scams of user 1 in chat 1 from empty tables: the run that
\* holds count 2 was enforced (muted) and notified first, the run that holds
\* count 1 warned and sent its card, showing 1, after the stored count had
\* become 2.
C34_Witness ==
    /\ \A t \in Tasks : task[t].pc = "done"
    /\ Strike(1, 1) = 2
    /\ Len(cards) = 2
    /\ cards[1].strikes = 2 /\ cards[2].strikes = 1
    /\ \E t, u \in Tasks :
          /\ task[t].new_strike_count = 1 /\ task[u].new_strike_count = 2
          /\ cards[2].message_db_id = task[t].saved_message_id
          /\ cards[1].message_db_id = task[u].saved_message_id
          /\ EnforcementLog(task[t].log) = <<<<"send_message", "WARN", 0>>>>
          /\ EnforcementLog(task[u].log)[1][1] = "restrict_chat_member"

\* How far a run has come in handle_message.
Stage(tk) ==
    IF tk.pc = "idle" THEN 0
    ELSE IF tk.pc = "is_admin" THEN 1
    ELSE IF tk.pc = "classify" THEN 2
    ELSE IF tk.pc = "persist" THEN 3
    ELSE IF tk.pc = "delete" THEN 4
    ELSE IF tk.pc = "esc_call" THEN 5
    ELSE IF tk.pc = "esc_notice" THEN 6
    ELSE IF tk.pc = "notify" THEN 7
    ELSE 8
Running(tk) == tk.pc \notin Terminal \cup {"idle"}

\* C35: every run that has started reaches a terminal state (skipped,
\* no_verdict, aborted or done) when the calls it issues return or raise;
\* every step of a run takes it to a later stage of the pipeline or to the
\* next target of the send loop, a terminal run never moves again, and a
\* run that is not terminal can take its next step whatever the other runs
\* are doing.
C35_Step ==
    \A t \in Tasks :
        task'[t] # task[t] =>
            /\ task[t].pc \notin Terminal
            /\ \/ Stage(task'[t]) > Stage(task[t])
               \/ /\ task[t].pc = "notify" /\ task'[t].pc = "notify"
                  /\ task'[t].sent = task[t].sent + 1
                  /\ task'[t].sent < Len(task'[t].targets)
                  /\ task'[t].targets = task[t].targets
            /\ \A u \in Tasks \ {t} : task'[u] = task[u]
C35_NeverWaits ==
    \A t \in Tasks :
        Running(task[t]) => ENABLED (handle_message_judged(t) \/ Pipeline(t))
C35_EveryRunEnds ==
    /\ \A t \in 1 .. TallyMsgs : Running(task[t]) ~> (task[t].pc \in Terminal)
    /\ [][C35_Step]_vars
    /\ []C35_NeverWaits

\* Both runs have ended, one aborted by a store failure after its verdict
\* and one done after a mute call that raised and a send loop over two
\* targets of which one send raised.
C35_Witness ==
    \E t, u \in Tasks :
        /\ task[t].pc = "aborted" /\ task[t].llm_calls = 1
        /\ task[u].pc = "done"
        /\ Len(task[u].targets) = 2 /\ task[u].sent = 2
        /\ \E i \in 1 .. Len(task[u].log) :
              task[u].log[i].op = "restrict_chat_member" /\ ~task[u].log[i].ok
        /\ \E i \in 1 .. Len(task[u].log) :
              task[u].log[i].what = "card" /\ ~task[u].log[i].ok

\* The sender of the run's message is whitelisted, globally or in the chat.
SenderWhitelisted(tk) ==
    \/ \E i \in 1 .. Len(users) :
          users[i].telegram_user_id = tk.from_user /\ users[i].is_global_whitelisted
    \/ \E i \in 1 .. Len(members) :
          /\ chats[members[i].chat_id].telegram_chat_id = tk.chat
          /\ users[members[i].user_id].telegram_user_id = tk.from_user
          /\ members[i].is_whitelisted
\* The run goes from the sender checks to the classification request.
GateLetsThrough(t) == handle_message_gate(t) /\ task'[t].pc = "classify"
\* The next message, one in chat 2, passes the admin-chat check.
BoundChatLetThrough(t) ==
    handle_message_lookup(t) /\ task'[t].chat = 2 /\ task'[t].pc = "is_admin"

\* C36: no gate lookup ends a run: from receipt a run is skipped or goes to
\* the sender checks, from there it is skipped or goes to classification,
\* and no table changes. When the lookup concerned can raise, the run of an
\* administrator's or a whitelisted sender's message can go on to
\* classification and the message in a locally bound admin chat can pass the
\* admin-chat check; such a run is classified only when that lookup can
\* raise.
C36_Step ==
    \A t \in Tasks :
        /\ (task[t].pc = "idle" /\ task'[t].pc # "idle") =>
              /\ task'[t].pc \in {"skipped", "is_admin"}
              /\ UNCHANGED <<chats, users, members, messages, cards>>
        /\ (task[t].pc = "is_admin" /\ task'[t].pc # "is_admin") =>
              /\ task'[t].pc \in {"skipped", "classify"}
              /\ UNCHANGED <<chats, users, members, messages, cards>>
C36_State ==
    \A t \in Tasks :
        LET tk == task[t]
            is_admin_sender == tk.from_user \in ChatAdmins[tk.chat]
        IN  /\ tk.llm_calls >= 1 =>
                  /\ is_admin_sender => "tx" \in faults
                  /\ SenderWhitelisted(tk) => "db" \in faults
                  /\ tk.chat \in BoundAdminChats => "db" \in faults
            /\ (tk.pc = "is_admin" /\ (is_admin_sender \/ SenderWhitelisted(tk))
                    /\ (is_admin_sender => "tx" \in faults)
                    /\ (SenderWhitelisted(tk) => "db" \in faults))
                  => ENABLED GateLetsThrough(t)
            /\ (tk.pc = "idle" /\ "db" \in faults
                    /\ 2 \in BoundAdminChats /\ ENABLED handle_message_lookup(t))
                  => ENABLED BoundChatLetThrough(t)
C36_GateLookupsFailOpen == [](C36_State) /\ [][C36_Step]_vars

\* Store and transport may raise. The message of chat 1's administrator,
\* the message of the whitelisted user 1 and the message in chat 2, to which
\* chat 1 is bound, were each classified, recorded with a first strike,
\* deleted and answered with the warning.
C36_Witness ==
    /\ faults = {"db", "tx"}
    /\ 2 \in BoundAdminChats
    /\ Len(messages) = 3
    /\ \A t \in Tasks :
          /\ task[t].pc = "done"
          /\ task[t].llm_calls = 1
          /\ task[t].new_strike_count = 1
          /\ EnforcementLog(task[t].log) = <<<<"send_message", "WARN", 0>>>>
    /\ task[1].chat = 1 /\ task[1].from_user = 2 /\ 2 \in ChatAdmins[1]
    /\ task[2].chat = 1 /\ task[2].from_user = 1 /\ SenderWhitelisted(task[2])
    /\ task[3].chat = 2 /\ task[3].from_user = 2

====
